---------------------------- MODULE Spec2Model ----------------------------
(***************************************************************************)
(* Model of the revision-cloud boundary-synthesis pipeline of              *)
(* SAA_T5.extension (RevisionCloudFromElements / MergeRevisionClouds).     *)
(*                                                                         *)
(* Coordinates are integers on a small grid; distances are compared by     *)
(* their squares, so every tolerance test of the source is exact here.     *)
(* Each component has a specification of its own (SpecHull, SpecClip, ...) *)
(* whose Init draws the inputs and whose actions apply the source's        *)
(* functions; the variables of the other components stay idle.             *)
(***************************************************************************)
EXTENDS Integers, Sequences, FiniteSets, TLC

\* ------------------------------------------------------------------ bounds
\* Grid of input points: X in 0..MaxCoord, Y in GridY.
MaxCoord == 2
\* Longest point list handed to convex_hull.
MaxPts == 4
\* Most vertices of a loop handed to the scope-box clip.
MaxClipPts == 3
\* Edges of the island outline whose mapped segments reach the stitcher.
MaxSegs == 3
\* Most wafers handed to merge_solids_groups.
MaxSolids == 3
\* Most projected edge vertices of a wall, most vertices of a room boundary.
MaxEdgePts == 3
\* Most selected elements of one run of the script.
MaxElems == 2
\* MergeRevisionClouds: revision clouds in the document
MaxClouds == 3
\* autosave hooks: the clock stops at MaxTime ticks
MaxTime == 8
\* Largest number of sketch curves of a revision cloud.
MaxCurves == 3

\* ------------------------------------------------------- program constants
\* doc.Application.ShortCurveTolerance, taken as the unit of length.
Tol == 1
\* intersect_x / intersect_y: an edge with abs(dx) < 1e-9 is taken as parallel
\* to the clip line; InvEps is 1 / 1e-9.
InvEps == 1000000000
\* map_curve_loop_to_sheet: two end points connect when closer than tol * 10.
ConnFactor == 10
\* max_gap = tol * 100.0
GapFactor == 100
\* merge_solids_groups: _bb_overlap2d(sb, gb, tol * 10.0)
MarginFactor == 10
\* str(time.time()) keeps 12 significant digits, hundredths of a second for
\* a time of today: TimeGrain ticks of the clock make one hundredth.
TimeGrain == 3
\* round(x, 6) keeps steps of 10^-6 ft: KeyGrain raw units make one step.
KeyGrain == 4
\* OFFSET_DIST = 300 * MM_TO_FT, in tol (ShortCurveTolerance is close to 1 mm)
OFFSET_DIST == 300

VARIABLES
    pc,         \* position of the component under check
    appendChecks, \* whether CurveLoop.Append raises on a curve that does not
                \* start where the loop ends (the library decides; the source
                \* guards some of its calls with try/except and not others)
    hullPts,    \* convex_hull: the argument `points`
    hullRes,    \* convex_hull(points)
    hullRes2,   \* convex_hull(convex_hull(points))
    clipLoop,   \* scope-box clip: the loop `cl` of all_loops
    clipRect,   \* scope_rect: [xmin, ymin, xmax, ymax]
    clipPts,    \* pts = loop_to_xy_points(cl)
    clipRes,    \* pts_clip = clip_polygon_to_rect(pts, ...)
    clipped,    \* the list `clipped`
    orLoop,     \* reverse_if_needed: the argument `loop`
    orResA,     \* reverse_if_needed(loop) of RevisionCloudFromElements
    orResB,     \* reverse_if_needed(loop) of MergeRevisionClouds
    segs,           \* map_curve_loop_to_sheet: the mapped segments
    sorted_curves,  \* the chain when the while loop ends
    segs_left,      \* the segments the chain did not take
    closing,        \* the closing edge of line 563: whether it was added,
                    \* and the squared gap it was decided on
    cl_sheet,       \* the CurveLoop map_curve_loop_to_sheet returns
    sheet_loop,     \* reverse_if_needed(sheet_loop)
    curves,         \* STEP 5: the List[Curve] of the island
    cloud_curve_sets,
    solids,         \* merge_solids_groups: the wafers, in input order
    bad_solids,     \* the wafers the boolean union raises on, both ways
    solid_groups,   \* the groups merge_solids_groups returns
    union_failed,   \* _try_union returned None at least once
    exEl,           \* extraction: the element `el`
    exPts,          \* the points `pts` the footprint is built from
    exLoops,        \* `loops`, or the exception the extractor raised
    elements,       \* main: the selected elements
    scope_rect,     \* get_scopebox_rect(model_view): <<>> for None
    view_scale,     \* model_view.Scale
    all_loops,      \* main: all_loops
    extracted,      \* all_loops as STEP 1-3 left it
    alerts,         \* the messages of forms.alert
    error,          \* the message of the exception that ended the script
    tx,             \* the Transaction: "none", "started", "committed",
                    \* "rolled_back"
    doc_clouds,     \* the revision clouds of the document
    mapIn,          \* map_curve_loop_to_sheet: the loop, the view scale, the
                    \* exact transform and the edge it raises at
    mapSegs,        \* map_curve_loop_to_sheet: segs, each with its source
                    \* edge and the path that made it
    mcDoc,          \* MergeRevisionClouds: the revision clouds of the document
    mcClouds,       \* the list `clouds` of the selection
    mcTx,           \* the Transaction "Merge Revision Clouds"
    mcError,        \* the message of the exception that ended the script
    mcDeleted,      \* how many of `clouds` the loop of doc.Delete has passed
    gclCurves,      \* get_cloud_loops: cloud.GetSketchCurves()
    gclUnused,      \* the set `unused`
    gclLoops,       \* the list `loops`
    gclLoop,        \* the CurveLoop `loop` under construction
    gclEndpt,       \* `endpt`
    hkNow,          \* autosave hooks: time.time()
    hkFile,         \* the status file of the document
    hkEnabled,      \* user_config.autosave enabled
    hkInterval,     \* user_config.autosave interval
    hkDoc,          \* the document of the event
    hkSaves         \* the times at which the hook saved the document

hullVars == <<hullPts, hullRes, hullRes2>>
clipVars == <<clipLoop, clipRect, clipPts, clipRes, clipped>>
orVars == <<orLoop, orResA, orResB>>
stitchVars == <<segs, sorted_curves, segs_left, closing, cl_sheet, sheet_loop,
                curves, cloud_curve_sets>>
mergeVars == <<solids, bad_solids, solid_groups, union_failed>>
exVars == <<exEl, exPts, exLoops>>
mainVars == <<elements, scope_rect, view_scale, all_loops, extracted, alerts, error, tx,
              doc_clouds>>
mapVars == <<mapIn, mapSegs>>
mcVars == <<mcDoc, mcClouds, mcTx, mcError, mcDeleted>>
gclVars == <<gclCurves, gclUnused, gclLoops, gclLoop, gclEndpt>>
hkVars == <<hkNow, hkFile, hkEnabled, hkInterval, hkDoc, hkSaves>>
vars == <<pc, appendChecks, hullVars, clipVars, orVars, stitchVars, mergeVars,
          exVars, mainVars, mapVars, mcVars, gclVars, hkVars>>

\* ------------------------------------------------------- component framing
\* The state of a component that is not under check.
HullIdle == hullPts = <<>> /\ hullRes = <<>> /\ hullRes2 = <<>>
ClipIdle ==
    /\ clipLoop = <<>>
    /\ clipRect = <<>>
    /\ clipPts = <<>>
    /\ clipRes = <<>>
    /\ clipped = <<>>
OrientIdle == orLoop = <<>> /\ orResA = <<>> /\ orResB = <<>>
StitchIdle ==
    /\ segs = <<>>
    /\ sorted_curves = <<>>
    /\ segs_left = <<>>
    /\ closing = <<>>
    /\ cl_sheet = <<>>
    /\ sheet_loop = <<>>
    /\ curves = <<>>
    /\ cloud_curve_sets = <<>>
MergeIdle ==
    /\ solids = <<>>
    /\ bad_solids = {}
    /\ solid_groups = <<>>
    /\ union_failed = FALSE
ExtractIdle == exEl = <<>> /\ exPts = <<>> /\ exLoops = <<>>
MainIdle ==
    /\ elements = <<>>
    /\ scope_rect = <<>>
    /\ view_scale = 1
    /\ all_loops = <<>>
    /\ extracted = <<>>
    /\ alerts = <<>>
    /\ error = ""
    /\ tx = "none"
    /\ doc_clouds = <<>>
MapIdle == mapIn = <<>> /\ mapSegs = <<>>
McIdle ==
    /\ mcDoc = {}
    /\ mcClouds = <<>>
    /\ mcTx = "none"
    /\ mcError = ""
    /\ mcDeleted = 0
GclIdle ==
    /\ gclCurves = <<>>
    /\ gclUnused = {}
    /\ gclLoops = <<>>
    /\ gclLoop = <<>>
    /\ gclEndpt = <<>>
HookIdle ==
    /\ hkNow = 0
    /\ hkFile = <<>>
    /\ hkEnabled = FALSE
    /\ hkInterval = 0
    /\ hkDoc = <<>>
    /\ hkSaves = <<>>

\* Every component but c is idle / is left unchanged.
Idle(c) ==
    /\ IF c = "hull" THEN TRUE ELSE HullIdle
    /\ IF c = "clip" THEN TRUE ELSE ClipIdle
    /\ IF c = "orient" THEN TRUE ELSE OrientIdle
    /\ IF c \in {"stitch", "main"} THEN TRUE ELSE StitchIdle
    /\ IF c \in {"merge", "main"} THEN TRUE ELSE MergeIdle
    /\ IF c = "extract" THEN TRUE ELSE ExtractIdle
    /\ IF c = "main" THEN TRUE ELSE MainIdle
    /\ IF c = "map" THEN TRUE ELSE MapIdle
    /\ IF c = "mc" THEN TRUE ELSE McIdle
    /\ IF c = "gcl" THEN TRUE ELSE GclIdle
    /\ IF c = "hook" THEN TRUE ELSE HookIdle
Frame(c) ==
    /\ UNCHANGED appendChecks
    /\ IF c = "hull" THEN TRUE ELSE UNCHANGED hullVars
    /\ IF c = "clip" THEN TRUE ELSE UNCHANGED clipVars
    /\ IF c = "orient" THEN TRUE ELSE UNCHANGED orVars
    /\ IF c \in {"stitch", "main"} THEN TRUE ELSE UNCHANGED stitchVars
    /\ IF c \in {"merge", "main"} THEN TRUE ELSE UNCHANGED mergeVars
    /\ IF c = "extract" THEN TRUE ELSE UNCHANGED exVars
    /\ IF c = "main" THEN TRUE ELSE UNCHANGED mainVars
    /\ IF c = "map" THEN TRUE ELSE UNCHANGED mapVars
    /\ IF c = "mc" THEN TRUE ELSE UNCHANGED mcVars
    /\ IF c = "gcl" THEN TRUE ELSE UNCHANGED gclVars
    /\ IF c = "hook" THEN TRUE ELSE UNCHANGED hkVars

\* ----------------------------------------------------------------- helpers
Pt(x, y) == [X |-> x, Y |-> y]
GridY == 0..2
GridPts == {Pt(x, y) : x \in 0..MaxCoord, y \in GridY}
SeqsUpTo(S, n) == UNION {[1..k -> S] : k \in 0..n}
Reverse(s) == [i \in 1..Len(s) |-> s[Len(s) + 1 - i]]
ButLast(s) == SubSeq(s, 1, Len(s) - 1)
Range(s) == {s[i] : i \in 1..Len(s)}
Abs(n) == IF n < 0 THEN -n ELSE n
\* The element of a one-element set.
TheOne(S) == CHOOSE v \in S : TRUE

\* ------------------------------------------------------------- convex_hull
\* key=lambda p: (p.X, p.Y)
KeyLess(p, q) == p.X < q.X \/ (p.X = q.X /\ p.Y < q.Y)

\* sorted(points, key=...): a stable sort (insertion of each point after the
\* points whose key is not greater).
RECURSIVE InsertSorted(_, _)
InsertSorted(s, p) ==
    IF s = <<>> THEN <<p>>
    ELSE IF KeyLess(p, Head(s)) THEN <<p>> \o s
    ELSE <<Head(s)>> \o InsertSorted(Tail(s), p)

RECURSIVE sorted(_)
sorted(points) ==
    IF points = <<>> THEN <<>>
    ELSE InsertSorted(sorted(ButLast(points)), points[Len(points)])

cross(o, a, b) == (a.X - o.X) * (b.Y - o.Y) - (a.Y - o.Y) * (b.X - o.X)

\* Mutant of turn_test: collinear points are kept on the chain.
turn_test_strict(o, a, b) == cross(o, a, b) < 0

\* The pop condition of both chains: cross(chain[-2], chain[-1], p) <= 0.
turn_test(o, a, b) == cross(o, a, b) <= 0

RECURSIVE pop_while(_, _)
pop_while(chain, p) ==
    IF Len(chain) >= 2 /\ turn_test(chain[Len(chain) - 1], chain[Len(chain)], p)
    THEN pop_while(ButLast(chain), p)
    ELSE chain

RECURSIVE build_chain(_, _)
build_chain(pts, chain) ==
    IF pts = <<>> THEN chain
    ELSE build_chain(Tail(pts), Append(pop_while(chain, Head(pts)), Head(pts)))

\* Mutant of convex_hull: the upper chain is forgotten.
convex_hull_lower_only(points) ==
    IF Len(points) < 3 THEN points
    ELSE build_chain(sorted(points), <<>>)

convex_hull(points) ==
    IF Len(points) < 3 THEN points
    ELSE LET pts == sorted(points)
             lower == build_chain(pts, <<>>)
             upper == build_chain(Reverse(pts), <<>>)
         IN  ButLast(lower) \o ButLast(upper)

\* ---------------------------------------------------------------- SpecHull
HullInit ==
    /\ pc = "hull"
    /\ appendChecks = TRUE
    /\ Idle("hull")
    /\ hullPts \in SeqsUpTo(GridPts, MaxPts)
    /\ hullRes = <<>>
    /\ hullRes2 = <<>>

\* hull = convex_hull(points)
HullApply ==
    /\ pc = "hull"
    /\ hullRes' = convex_hull(hullPts)
    /\ pc' = "hull_again"
    /\ UNCHANGED <<hullPts, hullRes2>>
    /\ Frame("hull")

\* convex_hull applied to its own result
HullApplyAgain ==
    /\ pc = "hull_again"
    /\ hullRes2' = convex_hull(hullRes)
    /\ pc' = "hull_done"
    /\ UNCHANGED <<hullPts, hullRes>>
    /\ Frame("hull")

HullNext == HullApply \/ HullApplyAgain

SpecHull == HullInit /\ [][HullNext]_vars

\* ------------------------------------------------------- claims on the hull
NoDuplicates(s) == \A i, j \in 1..Len(s) : s[i] = s[j] => i = j
Rotate(s, k) == [i \in 1..Len(s) |-> s[((i + k - 1) % Len(s)) + 1]]
SameCycle(a, b) ==
    /\ Len(a) = Len(b)
    /\ (a = <<>> \/ \E k \in 0..(Len(a) - 1) : Rotate(a, k) = b)
CycNext(s, i) == s[(i % Len(s)) + 1]
NonCollinear(s) == \E i, j, k \in 1..Len(s) : cross(s[i], s[j], s[k]) # 0

\* C7: convex_hull is idempotent: convex_hull(convex_hull(P)) has the same
\* vertex set and the same cyclic order as convex_hull(P), for every point
\* list P (fewer than 3 points, duplicates and all-collinear lists included).
C7_HullIdempotent ==
    pc = "hull_done" =>
        /\ Range(hullRes2) = Range(hullRes)
        /\ SameCycle(hullRes2, hullRes)

\* An all-collinear list of 3 points with a duplicate went through both hulls.
C7_Witness ==
    /\ pc = "hull_done"
    /\ Len(hullPts) >= 3
    /\ ~NonCollinear(hullPts)
    /\ ~NoDuplicates(hullPts)
    /\ Len(hullRes) = 2

\* C8: for a duplicate-free list with at least 3 non-collinear points,
\* convex_hull returns exactly the extreme points, each once, in
\* counter-clockwise order: every returned vertex is an input point, every
\* other returned vertex lies strictly left of each edge, and every input
\* point lies left of or on each edge.
C8_HullExtremePoints ==
    (pc # "hull" /\ NoDuplicates(hullPts) /\ NonCollinear(hullPts)) =>
        /\ Range(hullRes) \subseteq Range(hullPts)
        /\ NoDuplicates(hullRes)
        /\ Len(hullRes) >= 3
        /\ \A i \in 1..Len(hullRes) :
              /\ \A v \in Range(hullRes) \ {hullRes[i], CycNext(hullRes, i)} :
                    cross(hullRes[i], CycNext(hullRes, i), v) > 0
              /\ \A p \in Range(hullPts) :
                    cross(hullRes[i], CycNext(hullRes, i), p) >= 0

\* Four distinct points, one of them strictly inside the triangle of the
\* other three: the hull keeps the three corners.
C8_Witness ==
    /\ pc = "hull_done"
    /\ Len(hullPts) = 4
    /\ NoDuplicates(hullPts)
    /\ Len(hullRes) = 3
    /\ \E p \in Range(hullPts) \ Range(hullRes) :
          \A i \in 1..3 : cross(hullRes[i], CycNext(hullRes, i), p) > 0

\* ------------------------------------------------------------- rationals
\* The clip computes intersection points, which leave the integer grid: a
\* coordinate is a reduced fraction <<numerator, denominator>>.
RECURSIVE GCD(_, _)
GCD(a, b) == IF b = 0 THEN a ELSE GCD(b, a % b)
RNorm(n, d) ==
    LET g == GCD(Abs(n), Abs(d))
        sgn == IF d < 0 THEN -1 ELSE 1
    IN  <<sgn * (n \div g), sgn * (d \div g)>>
RInt(n) == <<n, 1>>
RAdd(a, b) == RNorm(a[1] * b[2] + b[1] * a[2], a[2] * b[2])
RSub(a, b) == RNorm(a[1] * b[2] - b[1] * a[2], a[2] * b[2])
RMul(a, b) == RNorm(a[1] * b[1], a[2] * b[2])
RDiv(a, b) == RNorm(a[1] * b[2], a[2] * b[1])
RLe(a, b) == a[1] * b[2] <= b[1] * a[2]
RLt(a, b) == a[1] * b[2] < b[1] * a[2]
\* abs(a) < 1e-9, without leaving 32-bit integers
RTiny(a) == a[1] = 0 \/ InvEps <= (a[2] - 1) \div Abs(a[1])
\* XYZ(p.X, p.Y, 0) of a grid point
RPt(p) == [X |-> RInt(p.X), Y |-> RInt(p.Y)]
\* p1.DistanceTo(p2) > t
RDistGt(p1, p2, t) ==
    LET dx == RSub(p2.X, p1.X)
        dy == RSub(p2.Y, p1.Y)
    IN  RLt(RInt(t * t), RAdd(RMul(dx, dx), RMul(dy, dy)))

\* ------------------------------------------------------------- CurveLoop
\* A curve is [s |-> GetEndPoint(0), e |-> GetEndPoint(1)]; a CurveLoop is the
\* sequence of its curves.
Line(p1, p2) == [s |-> p1, e |-> p2]
\* CurveLoop.Append(c) raises exactly when the library checks contiguity and
\* c does not start at the end of the loop's last curve.
AppendRaises(loop, c) ==
    appendChecks /\ loop # <<>> /\ loop[Len(loop)].e # c.s

\* What a function building a CurveLoop leaves: the loop, or an exception.
Built(cl) == [raised |-> FALSE, loop |-> cl]
Raised == [raised |-> TRUE, loop |-> <<>>]

\* curveloop_from_points on the points i..n of `points`, appended to cl.
RECURSIVE loop_from(_, _, _)
loop_from(points, i, cl) ==
    IF i > Len(points) THEN Built(cl)
    ELSE LET p1 == points[i]
             p2 == points[(i % Len(points)) + 1]
         IN  IF ~RDistGt(p1, p2, Tol) THEN loop_from(points, i + 1, cl)
             ELSE IF AppendRaises(cl, Line(p1, p2)) THEN Raised
             ELSE loop_from(points, i + 1, Append(cl, Line(p1, p2)))

curveloop_from_points(points) ==
    IF Len(points) < 2 THEN Built(<<>>) ELSE loop_from(points, 1, <<>>)

\* ------------------------------------------------------ scope-box clipping
\* loop_to_xy_points: the start point of every curve, then the last end point
\* when it is farther than tol from the first start point.
loop_to_xy_points(loop) ==
    LET starts == [i \in 1..Len(loop) |-> loop[i].s]
    IN  IF loop # <<>> /\ RDistGt(loop[Len(loop)].e, loop[1].s, Tol)
        THEN Append(starts, loop[Len(loop)].e)
        ELSE starts

\* Mutant of inside: the right and top edges of the rectangle are forgotten.
inside_left_bottom_only(side, r, p) ==
    CASE side = "left"   -> RLe(RInt(r.xmin), p.X)
      [] side = "right"  -> TRUE
      [] side = "bottom" -> RLe(RInt(r.ymin), p.Y)
      [] side = "top"    -> TRUE

\* Mutant of inside: points on the rectangle's right and top edges are outside.
inside_open(side, r, p) ==
    CASE side = "left"   -> RLe(RInt(r.xmin), p.X)
      [] side = "right"  -> RLt(p.X, RInt(r.xmax))
      [] side = "bottom" -> RLe(RInt(r.ymin), p.Y)
      [] side = "top"    -> RLt(p.Y, RInt(r.ymax))

\* inside_left, inside_right, inside_bottom, inside_top
inside(side, r, p) ==
    CASE side = "left"   -> RLe(RInt(r.xmin), p.X)
      [] side = "right"  -> RLe(p.X, RInt(r.xmax))
      [] side = "bottom" -> RLe(RInt(r.ymin), p.Y)
      [] side = "top"    -> RLe(p.Y, RInt(r.ymax))

intersect_x(p1, p2, x_clip) ==
    LET dx == RSub(p2.X, p1.X)
    IN  IF RTiny(dx) THEN [X |-> RInt(x_clip), Y |-> p1.Y]
        ELSE LET t == RDiv(RSub(RInt(x_clip), p1.X), dx)
             IN  [X |-> RInt(x_clip),
                  Y |-> RAdd(p1.Y, RMul(t, RSub(p2.Y, p1.Y)))]

intersect_y(p1, p2, y_clip) ==
    LET dy == RSub(p2.Y, p1.Y)
    IN  IF RTiny(dy) THEN [X |-> p1.X, Y |-> RInt(y_clip)]
        ELSE LET t == RDiv(RSub(RInt(y_clip), p1.Y), dy)
             IN  [X |-> RAdd(p1.X, RMul(t, RSub(p2.X, p1.X))),
                  Y |-> RInt(y_clip)]

\* The lambda handed to clip_edge for each side.
intersect(side, r, a, b) ==
    CASE side = "left"   -> intersect_x(a, b, r.xmin)
      [] side = "right"  -> intersect_x(a, b, r.xmax)
      [] side = "bottom" -> intersect_y(a, b, r.ymin)
      [] side = "top"    -> intersect_y(a, b, r.ymax)

\* The for loop of clip_edge from index i on, with prev and out as they stand.
RECURSIVE clip_walk(_, _, _, _, _, _)
clip_walk(pts, i, prev, out, side, r) ==
    IF i > Len(pts) THEN out
    ELSE LET curr == pts[i]
             curr_in == inside(side, r, curr)
             prev_in == inside(side, r, prev)
             out1 == IF curr_in
                     THEN (IF ~prev_in
                           THEN Append(out, intersect(side, r, prev, curr))
                           ELSE out) \o <<curr>>
                     ELSE IF prev_in
                          THEN Append(out, intersect(side, r, prev, curr))
                          ELSE out
         IN  clip_walk(pts, i + 1, curr, out1, side, r)

clip_edge(pts, side, r) ==
    IF pts = <<>> THEN <<>>
    ELSE clip_walk(pts, 1, pts[Len(pts)], <<>>, side, r)

\* The four clips in sequence; each intermediate list is bound as a value.
clip_polygon_to_rect(points, r) ==
    IF points = <<>> THEN <<>>
    ELSE TheOne({clip_edge(p3, "top", r) :
            p3 \in {clip_edge(p2, "bottom", r) :
                p2 \in {clip_edge(p1, "right", r) :
                    p1 \in {clip_edge(points, "left", r)}}}})

\* ---------------------------------------------------------------- SpecClip
\* The loops of all_loops: empty, closed over at least 2 points, or an open
\* chain; no curve has coincident end points (Line.CreateBound refuses them).
ClosedLoopOf(ps) == [i \in 1..Len(ps) |-> Line(RPt(ps[i]), RPt(ps[(i % Len(ps)) + 1]))]
OpenLoopOf(ps) == [i \in 1..(Len(ps) - 1) |-> Line(RPt(ps[i]), RPt(ps[i + 1]))]
ClipGrid == {Pt(x, y) : x \in 0..2, y \in 0..2}
ClipLoops ==
    {<<>>}
    \cup {ClosedLoopOf(ps) : ps \in
            {q \in SeqsUpTo(ClipGrid, MaxClipPts) :
                Len(q) >= 2 /\ \A i \in 1..Len(q) : q[i] # q[(i % Len(q)) + 1]}}
    \cup {OpenLoopOf(ps) : ps \in
            {q \in SeqsUpTo(ClipGrid, MaxClipPts) :
                Len(q) >= 2 /\ \A i \in 1..(Len(q) - 1) : q[i] # q[i + 1]}}

\* get_scopebox_rect: (bb.Min.X, bb.Min.Y, bb.Max.X, bb.Max.Y) of a bounding
\* box, so Min <= Max on both axes.
ClipYRanges == {<<0, 1>>, <<1, 2>>}
ClipRects ==
    {[xmin |-> x0, ymin |-> yr[1], xmax |-> x1, ymax |-> yr[2]] :
        x0 \in 0..2, x1 \in 0..2, yr \in ClipYRanges}

ClipInit ==
    /\ pc = "clip"
    /\ appendChecks \in BOOLEAN
    /\ clipLoop \in ClipLoops
    /\ clipRect \in {r \in ClipRects : r.xmin <= r.xmax}
    /\ clipPts = <<>>
    /\ clipRes = <<>>
    /\ clipped = <<>>
    /\ Idle("clip")

\* One iteration of `for cl in all_loops` under `if scope_rect`.
ClipLoop ==
    /\ pc = "clip"
    /\ \E pts \in {loop_to_xy_points(clipLoop)} :
       \E pts_clip \in {clip_polygon_to_rect(pts, clipRect)} :
       \E cl \in {curveloop_from_points(pts_clip)} :
           /\ clipPts' = pts
           /\ clipRes' = pts_clip
           /\ IF Len(pts_clip) >= 3
              THEN IF cl.raised
                   THEN pc' = "clip_raised" /\ clipped' = clipped
                   ELSE pc' = "clip_done" /\ clipped' = Append(clipped, cl.loop)
              ELSE pc' = "clip_done" /\ clipped' = clipped
    /\ UNCHANGED <<clipLoop, clipRect>>
    /\ Frame("clip")

ClipNext == ClipLoop

SpecClip == ClipInit /\ [][ClipNext]_vars

\* ------------------------------------------------------- claims on the clip
InRect(p, r) ==
    /\ RLe(RInt(r.xmin), p.X) /\ RLe(p.X, RInt(r.xmax))
    /\ RLe(RInt(r.ymin), p.Y) /\ RLe(p.Y, RInt(r.ymax))

\* C5: for every input polygon and every rectangle with xmin <= xmax and
\* ymin <= ymax, every vertex returned by clip_polygon_to_rect lies in the
\* rectangle: xmin <= v.X <= xmax and ymin <= v.Y <= ymax.
C5_ClipContainment ==
    pc # "clip" => \A i \in 1..Len(clipRes) : InRect(clipRes[i], clipRect)

\* A polygon with a vertex outside the rectangle was cut: the result holds a
\* vertex that is not a vertex of the input.
C5_Witness ==
    /\ pc # "clip"
    /\ \E i \in 1..Len(clipPts) : ~InRect(clipPts[i], clipRect)
    /\ \E i \in 1..Len(clipRes) : clipRes[i] \notin Range(clipPts)

\* C6: clipping a polygon against a rectangle that contains all its vertices
\* returns the polygon unchanged: the same vertices in the same order, none
\* added and none removed.
C6_ClipContainedUnchanged ==
    (pc # "clip" /\ \A i \in 1..Len(clipPts) : InRect(clipPts[i], clipRect))
        => clipRes = clipPts

\* A polygon of 3 vertices inside the rectangle, one of them on the
\* rectangle's right edge, went through the clip.
C6_Witness ==
    /\ pc # "clip"
    /\ Len(clipPts) >= 3
    /\ \A i \in 1..Len(clipPts) : InRect(clipPts[i], clipRect)
    /\ \E i \in 1..Len(clipPts) : clipPts[i].X = RInt(clipRect.xmax)
    /\ clipRes = clipPts

\* ------------------------------------------------------- reverse_if_needed
\* Twice the shoelace sum of a point list; the source halves it, which keeps
\* the sign it tests.
shoelace2(pts) ==
    LET term(i) == pts[i].X * CycNext(pts, i).Y - CycNext(pts, i).X * pts[i].Y
        sum[i \in 0..Len(pts)] == IF i = 0 THEN 0 ELSE sum[i - 1] + term(i)
    IN  sum[Len(pts)]

\* pts: GetEndPoint(0) of every curve of the loop
loop_starts(loop) == [i \in 1..Len(loop) |-> loop[i].s]

CreateReversed(c) == [s |-> c.e, e |-> c.s]

\* rev = CurveLoop(); for c in curves: rev.Append(c)
RECURSIVE append_all(_, _)
append_all(cl, cs) ==
    IF cs = <<>> THEN Built(cl)
    ELSE IF AppendRaises(cl, Head(cs)) THEN Raised
    ELSE append_all(Append(cl, Head(cs)), Tail(cs))

\* curves.insert(0, it.Current.CreateReversed()) for every curve, then rev
reversed_loop(loop) ==
    append_all(<<>>, [i \in 1..Len(loop) |-> CreateReversed(loop[Len(loop) + 1 - i])])

\* reverse_if_needed of RevisionCloudFromElements: `if a <= 0: return loop`
reverse_if_needed(loop) ==
    IF Len(loop) < 3 THEN Built(loop)
    ELSE IF shoelace2(loop_starts(loop)) <= 0 THEN Built(loop)
    ELSE reversed_loop(loop)

\* reverse_if_needed of MergeRevisionClouds: `if area >= 0:` reverse
reverse_if_needed_merge(loop) ==
    IF Len(loop) < 3 THEN Built(loop)
    ELSE IF shoelace2(loop_starts(loop)) >= 0 THEN reversed_loop(loop)
    ELSE Built(loop)

\* -------------------------------------------------------------- SpecOrient
\* A closed loop of lines over grid points; no line has coincident end points.
ClosedLoopOver(ps) == [i \in 1..Len(ps) |-> Line(ps[i], ps[(i % Len(ps)) + 1])]
OrientLoops ==
    {ClosedLoopOver(ps) : ps \in
        {q \in SeqsUpTo(GridPts, MaxPts) :
            Len(q) >= 2 /\ \A i \in 1..Len(q) : q[i] # q[(i % Len(q)) + 1]}}

OrientInit ==
    /\ pc = "orient"
    /\ appendChecks \in BOOLEAN
    /\ orLoop \in OrientLoops
    /\ orResA = <<>>
    /\ orResB = <<>>
    /\ Idle("orient")

\* sheet_loop = reverse_if_needed(sheet_loop)      (RevisionCloudFromElements)
OrientCloud ==
    /\ pc = "orient"
    /\ orResA' = reverse_if_needed(orLoop)
    /\ pc' = "orient_merge"
    /\ UNCHANGED <<orLoop, orResB>>
    /\ Frame("orient")

\* outer = reverse_if_needed(outer)                (MergeRevisionClouds)
OrientMerge ==
    /\ pc = "orient_merge"
    /\ orResB' = reverse_if_needed_merge(orLoop)
    /\ pc' = "orient_done"
    /\ UNCHANGED <<orLoop, orResA>>
    /\ Frame("orient")

OrientNext == OrientCloud \/ OrientMerge

SpecOrient == OrientInit /\ [][OrientNext]_vars

\* ------------------------------------------------ claims on the orientation
Sign(x) == IF x > 0 THEN 1 ELSE IF x < 0 THEN -1 ELSE 0
\* p lies on the segment from a to b
OnSeg(p, a, b) ==
    /\ cross(a, b, p) = 0
    /\ (IF a.X < b.X THEN a.X ELSE b.X) <= p.X
    /\ p.X <= (IF a.X < b.X THEN b.X ELSE a.X)
    /\ (IF a.Y < b.Y THEN a.Y ELSE b.Y) <= p.Y
    /\ p.Y <= (IF a.Y < b.Y THEN b.Y ELSE a.Y)
\* the segments a-b and c-d have a point in common
SegsMeet(a, b, c, d) ==
    \/ /\ Sign(cross(a, b, c)) * Sign(cross(a, b, d)) < 0
       /\ Sign(cross(c, d, a)) * Sign(cross(c, d, b)) < 0
    \/ OnSeg(c, a, b) \/ OnSeg(d, a, b) \/ OnSeg(a, c, d) \/ OnSeg(b, c, d)
\* A simple loop: edges that are not neighbours do not meet, and neighbours
\* meet at their common vertex only.
SimpleLoop(loop) ==
    LET n == Len(loop)
    IN  /\ n >= 3
        /\ \A i, j \in 1..n :
              i < j =>
                IF j = i + 1
                THEN ~OnSeg(loop[j].e, loop[i].s, loop[i].e)
                     /\ ~OnSeg(loop[i].s, loop[j].s, loop[j].e)
                ELSE IF i = 1 /\ j = n
                THEN ~OnSeg(loop[j].s, loop[i].s, loop[i].e)
                     /\ ~OnSeg(loop[i].e, loop[j].s, loop[j].e)
                ELSE ~SegsMeet(loop[i].s, loop[i].e, loop[j].s, loop[j].e)
SignedArea2(loop) == shoelace2(loop_starts(loop))

\* C1: for any simple input loop with nonzero area, the loop returned by
\* reverse_if_needed (in RevisionCloudFromElements and in MergeRevisionClouds)
\* has strictly positive shoelace signed area (counter-clockwise winding).
C1_PositiveAreaAfterNormalize ==
    (pc = "orient_done" /\ SimpleLoop(orLoop) /\ SignedArea2(orLoop) # 0) =>
        /\ ~orResA.raised /\ SignedArea2(orResA.loop) > 0
        /\ ~orResB.raised /\ SignedArea2(orResB.loop) > 0

\* What the code does instead: both functions return a loop of strictly
\* negative signed area, with the curves of the input (reversed when the
\* input was counter-clockwise).
NormalizedAreaNegative ==
    (pc = "orient_done" /\ SimpleLoop(orLoop) /\ SignedArea2(orLoop) # 0) =>
        /\ ~orResA.raised /\ SignedArea2(orResA.loop) < 0
        /\ ~orResB.raised /\ SignedArea2(orResB.loop) < 0
        /\ orResA = orResB

\* ------------------------------------------- map_curve_loop_to_sheet: stitch
DistSq(p, q) == (p.X - q.X) * (p.X - q.X) + (p.Y - q.Y) * (p.Y - q.Y)
\* p.DistanceTo(q) < t, p.DistanceTo(q) > t
DistLt(p, q, t) == DistSq(p, q) < t * t
DistGt(p, q, t) == DistSq(p, q) > t * t
RemoveAt(s, i) == SubSeq(s, 1, i - 1) \o SubSeq(s, i + 1, Len(s))

\* last_end.DistanceTo(s) < tol * 10
connects(p, q) == DistLt(p, q, Tol * ConnFactor)

\* Mutant of find_next: a segment matched by its end point is not reversed.
RECURSIVE find_next_as_is(_, _, _)
find_next_as_is(last_end, left, i) ==
    IF i > Len(left) THEN [idx |-> 0, rev |-> FALSE]
    ELSE IF connects(last_end, left[i].s) THEN [idx |-> i, rev |-> FALSE]
    ELSE IF connects(last_end, left[i].e) THEN [idx |-> i, rev |-> FALSE]
    ELSE find_next_as_is(last_end, left, i + 1)

\* for i, c in enumerate(segs_left): the first segment whose start, or else
\* whose end, connects to last_end; idx = 0 when there is none.
RECURSIVE find_next(_, _, _)
find_next(last_end, left, i) ==
    IF i > Len(left) THEN [idx |-> 0, rev |-> FALSE]
    ELSE IF connects(last_end, left[i].s) THEN [idx |-> i, rev |-> FALSE]
    ELSE IF connects(last_end, left[i].e) THEN [idx |-> i, rev |-> TRUE]
    ELSE find_next(last_end, left, i + 1)

\* while segs_left: ... sorted_curves.append(segs_left.pop(next_idx)) / break
RECURSIVE build_sorted(_, _)
build_sorted(chain, left) ==
    IF left = <<>> THEN [chain |-> chain, left |-> left]
    ELSE LET nxt == TheOne({find_next(chain[Len(chain)].e, left, 1)})
         IN  IF nxt.idx = 0 THEN [chain |-> chain, left |-> left]
             ELSE build_sorted(
                    Append(chain, IF nxt.rev THEN CreateReversed(left[nxt.idx])
                                  ELSE left[nxt.idx]),
                    RemoveAt(left, nxt.idx))

\* if len(sorted_curves) > 1: ... if first_start.DistanceTo(last_end) > tol * 10
closing_needed(chain) ==
    /\ Len(chain) > 1
    /\ DistGt(chain[1].s, chain[Len(chain)].e, Tol * ConnFactor)

\* for c in sorted_curves: try: cl_sheet.Append(c) / except: pass
RECURSIVE append_each_try(_, _)
append_each_try(cl, cs) ==
    IF cs = <<>> THEN cl
    ELSE append_each_try(
            IF AppendRaises(cl, Head(cs)) THEN cl ELSE Append(cl, Head(cs)),
            Tail(cs))

\* map_curve_loop_to_sheet from `cl_sheet = CurveLoop()` on, for the mapped
\* segments sg: the chain, what is left, the closing edge and the loop.
stitch(sg) ==
    IF sg = <<>>
    THEN [chain |-> <<>>, left |-> <<>>, closing |-> <<>>, loop |-> <<>>]
    ELSE LET b == TheOne({build_sorted(<<sg[1]>>, Tail(sg))})
             n == Len(b.chain)
             add == closing_needed(b.chain)
             all == IF add
                    THEN Append(b.chain, Line(b.chain[n].e, b.chain[1].s))
                    ELSE b.chain
         IN  [chain |-> b.chain,
              left |-> b.left,
              closing |-> IF n > 1
                          THEN <<[added |-> add,
                                  gap2 |-> DistSq(b.chain[1].s, b.chain[n].e)]>>
                          ELSE <<>>,
              loop |-> append_each_try(<<>>, all)]

\* ------------------------------------------------------------------ STEP 5
\* gap > tol and gap < max_gap
bridged(p, q) == DistGt(p, q, Tol) /\ DistLt(p, q, Tol * GapFactor)

\* while it.MoveNext(): first and prev are <<>> for None, else <<point>>.
RECURSIVE step5_walk(_, _, _, _, _)
step5_walk(loop, i, first, prev, cs) ==
    IF i > Len(loop) THEN [first |-> first, prev |-> prev, curves |-> cs]
    ELSE LET c == loop[i]
         IN  IF DistLt(c.s, c.e, Tol)
             THEN step5_walk(loop, i + 1, first, prev, cs)
             ELSE step5_walk(loop, i + 1,
                    IF first = <<>> THEN <<c.s>> ELSE first,
                    <<c.e>>,
                    Append(IF prev # <<>> /\ bridged(prev[1], c.s)
                           THEN Append(cs, Line(prev[1], c.s))
                           ELSE cs, c))

\* Mutant of step5_close: the closing bridge runs the wrong way.
step5_close_backwards(w) ==
    IF w.first # <<>> /\ w.prev # <<>> /\ bridged(w.prev[1], w.first[1])
    THEN Append(w.curves, Line(w.first[1], w.prev[1]))
    ELSE w.curves

\* Mutant of step5_close: the loop is never closed.
step5_close_never(w) == w.curves

\* if first_start and prev_end: ... curves.Add(Line.CreateBound(prev_end, first_start))
step5_close(w) ==
    IF w.first # <<>> /\ w.prev # <<>> /\ bridged(w.prev[1], w.first[1])
    THEN Append(w.curves, Line(w.prev[1], w.first[1]))
    ELSE w.curves

step5_curves(loop) == step5_close(TheOne({step5_walk(loop, 1, <<>>, <<>>, <<>>)}))

\* -------------------------------------------------------------- SpecStitch
\* The outline of an island: the first MaxSegs vertices of a convex polygon
\* with one short side (60 tol) and long sides (200 tol and more).
OutlineVerts == <<Pt(0, 0), Pt(60, 0), Pt(60, 200), Pt(0, 200), Pt(-40, 100)>>
OutlineEdge(i) == Line(OutlineVerts[i], OutlineVerts[(i % MaxSegs) + 1])
\* Drift of a mapped segment's start point, in tol: none, tol itself, below
\* the connection tolerance, between it and max_gap.
Drifts == {0, 1, 5, 50}
MappedSeg(i, d, rev) ==
    LET e == OutlineEdge(i)
        c == Line(Pt(e.s.X + d, e.s.Y), e.e)
    IN  IF rev THEN CreateReversed(c) ELSE c
\* Ways to pick k edges of the outline, each once, in any order.
EdgeOrders(k) ==
    {f \in [1..k -> 1..MaxSegs] : \A a, b \in 1..k : f[a] = f[b] => a = b}

StitchInit ==
    /\ pc = "stitch"
    /\ appendChecks \in BOOLEAN
    \* The mapped segments of the outline: some of its edges, each once, in
    \* any order, each reversed or not, each with a drifted start point.
    /\ \E k \in 0..MaxSegs :
          \E ord \in EdgeOrders(k), d \in [1..k -> Drifts], rev \in [1..k -> BOOLEAN] :
              segs = [j \in 1..k |-> MappedSeg(ord[j], d[j], rev[j])]
    /\ sorted_curves = <<>>
    /\ segs_left = <<>>
    /\ closing = <<>>
    /\ cl_sheet = <<>>
    /\ sheet_loop = <<>>
    /\ curves = <<>>
    /\ cloud_curve_sets = <<>>
    /\ Idle("stitch")

\* sheet_loop = map_curve_loop_to_sheet(outer_loop, model_view, viewport),
\* from the mapped segments on
StitchMap ==
    /\ pc = "stitch"
    /\ \E r \in {stitch(segs)} :
          /\ sorted_curves' = r.chain
          /\ segs_left' = r.left
          /\ closing' = r.closing
          /\ cl_sheet' = r.loop
    /\ pc' = "stitch_mapped"
    /\ UNCHANGED <<segs, sheet_loop, curves, cloud_curve_sets>>
    /\ Frame("stitch")

\* sheet_loop = reverse_if_needed(sheet_loop); an exception ends the script
StitchNormalize ==
    /\ pc = "stitch_mapped"
    /\ \E r \in {reverse_if_needed(cl_sheet)} :
          /\ sheet_loop' = r.loop
          /\ pc' = IF r.raised THEN "stitch_raised" ELSE "stitch_normalized"
    /\ UNCHANGED <<segs, sorted_curves, segs_left, closing, cl_sheet, curves,
                   cloud_curve_sets>>
    /\ Frame("stitch")

\* curves = List[Curve]() ... if curves.Count > 0: cloud_curve_sets.append(curves)
StitchStep5 ==
    /\ pc = "stitch_normalized"
    /\ \E cs \in {step5_curves(sheet_loop)} :
          /\ curves' = cs
          /\ cloud_curve_sets' = IF Len(cs) > 0
                                 THEN Append(cloud_curve_sets, cs)
                                 ELSE cloud_curve_sets
    /\ pc' = "stitch_done"
    /\ UNCHANGED <<segs, sorted_curves, segs_left, closing, cl_sheet, sheet_loop>>
    /\ Frame("stitch")

StitchNext == StitchMap \/ StitchNormalize \/ StitchStep5

SpecStitch == StitchInit /\ [][StitchNext]_vars

\* ----------------------------------------------------- claims on the stitch
\* Two points coincide: they are no farther apart than tol, the gap STEP 5
\* leaves alone.
Coincide(p, q) == DistSq(p, q) <= Tol * Tol
Contiguous(cs) == \A i \in 1..(Len(cs) - 1) : Coincide(cs[i].e, cs[i + 1].s)
ClosedSet(cs) == cs # <<>> /\ Coincide(cs[Len(cs)].e, cs[1].s)

\* C2, as stated: in every curve set appended to cloud_curve_sets each curve
\* starts where the previous one ends and the last curve ends where the
\* first one starts, whatever the mapped segments were.
C2_EveryOutputClosed ==
    \A k \in 1..Len(cloud_curve_sets) :
        Contiguous(cloud_curve_sets[k]) /\ ClosedSet(cloud_curve_sets[k])

\* C2, amended: in every curve set appended to cloud_curve_sets each curve
\* starts where the previous one ends, and the last curve ends where the
\* first one starts unless these two points are max_gap or more apart, in
\* which case the set is appended open.
C2_ClosedUnlessWideGap ==
    \A k \in 1..Len(cloud_curve_sets) :
        LET cs == cloud_curve_sets[k]
        IN  /\ Contiguous(cs)
            /\ \/ ClosedSet(cs)
               \/ ~DistLt(cs[Len(cs)].e, cs[1].s, Tol * GapFactor)

\* A loop of three curves or more that came out of the stitch open, with its
\* ends less than max_gap apart, and that STEP 5 closed and appended.
C2_Witness ==
    /\ pc = "stitch_done"
    /\ Len(sheet_loop) >= 3
    /\ ~ClosedSet(sheet_loop)
    /\ cloud_curve_sets = <<curves>>
    /\ Len(curves) = Len(sheet_loop) + 1
    /\ ClosedSet(curves)

\* The curve at position k of cs is a bridge: it runs from the end of the
\* curve before it to the start of the curve after it (of the first curve,
\* for the last position).
IsBridge(cs, k) ==
    /\ k > 1
    /\ cs[k].s = cs[k - 1].e
    /\ cs[k].e = IF k < Len(cs) THEN cs[k + 1].s ELSE cs[1].s
\* cs is the loop with bridges put in: the curves of the loop, in the same
\* order and direction, and between or after them bridges only.
OnlyBridgesAdded(loop, cs) ==
    \E P \in SUBSET (1..Len(cs)) :
        /\ Cardinality(P) = Len(loop)
        /\ \A k \in P : cs[k] = loop[Cardinality({j \in P : j <= k})]
        /\ \A k \in (1..Len(cs)) \ P : IsBridge(cs, k)

PerturbedOutline ==
    /\ Len(segs) = MaxSegs
    /\ \A j \in 1..Len(segs) :
          \E i \in 1..MaxSegs, c \in {segs[j], CreateReversed(segs[j])} :
              /\ DistLt(c.s, OutlineEdge(i).s, Tol * GapFactor)
              /\ DistLt(c.e, OutlineEdge(i).e, Tol * GapFactor)

\* C9: from the edges of a closed polygon in any order, each reversed or not,
\* with end points drifted by less than max_gap, the stitch and STEP 5
\* yield one closed curve set that holds every input edge exactly once.
C9_StitchClosure ==
    (pc = "stitch_done" /\ PerturbedOutline) =>
        /\ cloud_curve_sets = <<curves>>
        /\ Contiguous(curves)
        /\ ClosedSet(curves)
        /\ \A j \in 1..Len(segs) :
              Cardinality({k \in 1..Len(curves) :
                  curves[k] \in {segs[j], CreateReversed(segs[j])}}) = 1

\* C10: map_curve_loop_to_sheet adds the closing edge only when the gap from
\* the chain's last point to its first point is nonzero and smaller than
\* max_gap.
C10_ClosingOnlySmallGap ==
    (closing # <<>> /\ closing[1].added) =>
        /\ closing[1].gap2 > 0
        /\ closing[1].gap2 < (Tol * GapFactor) * (Tol * GapFactor)

\* ------------------------------------------------------ merge_solids_groups
\* A wafer is the set of input wafers it was united from (members), the
\* region it covers, as a set of axis-parallel rectangles in units of tol
\* (rects), and whether GetBoundingBox answers (bbOK).
Rect(x1, y1, x2, y2) == [x1 |-> x1, y1 |-> y1, x2 |-> x2, y2 |-> y2]
MinOf(S) == CHOOSE m \in S : \A x \in S : m <= x
MaxOf(S) == CHOOSE m \in S : \A x \in S : m >= x

\* s.GetBoundingBox(), None (<<>>) when it raises
_solid_bbox(s) ==
    IF s.bbOK
    THEN <<[Min |-> [X |-> MinOf({r.x1 : r \in s.rects}), Y |-> MinOf({r.y1 : r \in s.rects})],
            Max |-> [X |-> MaxOf({r.x2 : r \in s.rects}), Y |-> MaxOf({r.y2 : r \in s.rects})]]>>
    ELSE <<>>

\* Mutant of _bb_overlap2d: the margin shrinks the boxes.
_bb_overlap2d_shrunk(bbA, bbB, tol) ==
    ~ \/ bbA.Max.X < bbB.Min.X + tol
      \/ bbB.Max.X < bbA.Min.X + tol
      \/ bbA.Max.Y < bbB.Min.Y + tol
      \/ bbB.Max.Y < bbA.Min.Y + tol

_bb_overlap2d(bbA, bbB, tol) ==
    ~ \/ bbA.Max.X < bbB.Min.X - tol
      \/ bbB.Max.X < bbA.Min.X - tol
      \/ bbA.Max.Y < bbB.Min.Y - tol
      \/ bbB.Max.Y < bbA.Min.Y - tol

\* bb1 and bb2 and _bb_overlap2d(bb1, bb2, tol * 10.0)
boxes_meet(a, b) ==
    /\ _solid_bbox(a) # <<>>
    /\ _solid_bbox(b) # <<>>
    /\ _bb_overlap2d(_solid_bbox(a)[1], _solid_bbox(b)[1], Tol * MarginFactor)

\* ExecuteBooleanOperation(a, b, Union), then (b, a); None (<<>>) when both
\* raise. The union of two wafers covers both regions.
_try_union(a, b) ==
    IF (a.members \cup b.members) \cap bad_solids # {}
    THEN <<>>
    ELSE <<[members |-> a.members \cup b.members,
            rects |-> a.rects \cup b.rects,
            bbOK |-> TRUE]>>

\* Mutant of place_solid: a solid whose union failed is not kept.
RECURSIVE place_solid_drops(_, _, _, _)
place_solid_drops(groups, s, i, failed) ==
    IF i > Len(groups) THEN [groups |-> Append(groups, s), failed |-> failed]
    ELSE IF boxes_meet(s, groups[i])
    THEN TheOne({IF u # <<>>
                 THEN [groups |-> [groups EXCEPT ![i] = u[1]], failed |-> failed]
                 ELSE [groups |-> groups, failed |-> TRUE] :
                 u \in {_try_union(groups[i], s)}})
    ELSE place_solid_drops(groups, s, i + 1, failed)

\* for i, g in enumerate(groups): ... if not placed: groups.append(s)
RECURSIVE place_solid(_, _, _, _)
place_solid(groups, s, i, failed) ==
    IF i > Len(groups) THEN [groups |-> Append(groups, s), failed |-> failed]
    ELSE IF boxes_meet(s, groups[i])
    THEN TheOne({IF u # <<>>
                 THEN [groups |-> [groups EXCEPT ![i] = u[1]], failed |-> failed]
                 ELSE place_solid(groups, s, i + 1, TRUE) :
                 u \in {_try_union(groups[i], s)}})
    ELSE place_solid(groups, s, i + 1, failed)

\* Mutant of place_all: a solid without a bounding box is left out.
RECURSIVE place_all_skips(_, _, _)
place_all_skips(st, ss, k) ==
    IF k > Len(ss) THEN st
    ELSE IF _solid_bbox(ss[k]) = <<>>
    THEN place_all_skips(st, ss, k + 1)
    ELSE TheOne({place_all_skips(n, ss, k + 1) :
                 n \in {place_solid(st.groups, ss[k], 1, st.failed)}})

\* for s in solids: sb = _solid_bbox(s); if sb is None: groups.append(s) ...
RECURSIVE place_all(_, _, _)
place_all(st, ss, k) ==
    IF k > Len(ss) THEN st
    ELSE IF _solid_bbox(ss[k]) = <<>>
    THEN place_all([groups |-> Append(st.groups, ss[k]), failed |-> st.failed], ss, k + 1)
    ELSE TheOne({place_all(n, ss, k + 1) :
                 n \in {place_solid(st.groups, ss[k], 1, st.failed)}})

\* Mutant of scan_cands: a failed union counts as a change.
RECURSIVE scan_cands_flags(_, _, _, _, _)
scan_cands_flags(base, groups, j, changed, failed) ==
    IF j > Len(groups)
    THEN [base |-> base, groups |-> groups, changed |-> changed, failed |-> failed]
    ELSE IF boxes_meet(base, groups[j])
    THEN TheOne({IF u # <<>>
                 THEN scan_cands_flags(u[1], RemoveAt(groups, j), j, TRUE, failed)
                 ELSE scan_cands_flags(base, groups, j + 1, TRUE, TRUE) :
                 u \in {_try_union(base, groups[j])}})
    ELSE scan_cands_flags(base, groups, j + 1, changed, failed)

\* j = 0; while j < len(groups): ...
RECURSIVE scan_cands(_, _, _, _, _)
scan_cands(base, groups, j, changed, failed) ==
    IF j > Len(groups)
    THEN [base |-> base, groups |-> groups, changed |-> changed, failed |-> failed]
    ELSE IF boxes_meet(base, groups[j])
    THEN TheOne({IF u # <<>>
                 THEN scan_cands(u[1], RemoveAt(groups, j), j, TRUE, failed)
                 ELSE scan_cands(base, groups, j + 1, changed, TRUE) :
                 u \in {_try_union(base, groups[j])}})
    ELSE scan_cands(base, groups, j + 1, changed, failed)

\* Mutant of rescan_pass: the pass compares nothing.
rescan_pass_idle(groups, new_groups, changed, failed) ==
    [groups |-> groups, changed |-> FALSE, failed |-> failed]

\* while groups: base = groups.pop() ... new_groups.append(base)
RECURSIVE rescan_pass(_, _, _, _)
rescan_pass(groups, new_groups, changed, failed) ==
    IF groups = <<>>
    THEN [groups |-> new_groups, changed |-> changed, failed |-> failed]
    ELSE TheOne({rescan_pass(r.groups, Append(new_groups, r.base), r.changed, r.failed) :
                 r \in {scan_cands(groups[Len(groups)], ButLast(groups), 1,
                                   changed, failed)}})

\* Mutant of rescan: the greedy pass is the last one.
rescan_never(groups, changed, failed) == [groups |-> groups, failed |-> failed]

\* changed = True; while changed and len(groups) > 1: ...
RECURSIVE rescan(_, _, _)
rescan(groups, changed, failed) ==
    IF changed /\ Len(groups) > 1
    THEN TheOne({rescan(r.groups, r.changed, r.failed) :
                 r \in {rescan_pass(groups, <<>>, FALSE, failed)}})
    ELSE [groups |-> groups, failed |-> failed]

merge_solids_groups(ss) ==
    IF ss = <<>> THEN [groups |-> <<>>, failed |-> FALSE]
    ELSE TheOne({rescan(st.groups, TRUE, st.failed) :
                 st \in {place_all([groups |-> <<>>, failed |-> FALSE], ss, 1)}})

\* --------------------------------------------------------------- SpecMerge
\* Offset footprints, in tol: a row of three squares where the first meets
\* the second and the second the third, an L and a square in its hollow.
Footprints ==
    << {Rect(0, 0, 100, 100)},
       {Rect(95, 0, 180, 100)},
       {Rect(170, 0, 260, 100)},
       {Rect(0, 200, 100, 230), Rect(0, 200, 30, 300)},
       {Rect(60, 260, 90, 290)} >>

MergeInit ==
    /\ pc = "merge"
    /\ appendChecks = TRUE
    /\ \E n \in 0..MaxSolids :
          /\ \E f \in [1..n -> 1..Len(Footprints)], ok \in [1..n -> BOOLEAN] :
                solids = [i \in 1..n |-> [members |-> {i},
                                          rects |-> Footprints[f[i]],
                                          bbOK |-> ok[i]]]
          /\ bad_solids \in SUBSET (1..n)
    /\ solid_groups = <<>>
    /\ union_failed = FALSE
    /\ Idle("merge")

\* solid_groups = merge_solids_groups(all_solids)
MergeGroups ==
    /\ pc = "merge"
    /\ \E r \in {merge_solids_groups(solids)} :
          /\ solid_groups' = r.groups
          /\ union_failed' = r.failed
    /\ pc' = "merge_done"
    /\ UNCHANGED <<solids, bad_solids>>
    /\ Frame("merge")

MergeNext == MergeGroups

SpecMerge == MergeInit /\ [][MergeNext]_vars

\* ------------------------------------------------------ claims on the merge
\* Two wafers overlap: their regions share more than a boundary.
RectsOverlap(r, q) == r.x1 < q.x2 /\ q.x1 < r.x2 /\ r.y1 < q.y2 /\ q.y1 < r.y2
Overlap(i, j) == \E r \in solids[i].rects, q \in solids[j].rects : RectsOverlap(r, q)
\* The wafers reached from those of S through overlaps.
RECURSIVE OverlapClosure(_)
OverlapClosure(S) ==
    LET T == S \cup {j \in 1..Len(solids) : \E i \in S : Overlap(i, j)}
    IN  IF T = S THEN S ELSE OverlapClosure(T)
SameIsland(i, j) ==
    \E g \in 1..Len(solid_groups) : {i, j} \subseteq solid_groups[g].members
UnionOfMembers(g) == UNION {solids[i].rects : i \in g.members}
ChainsShareIslands ==
    /\ \A i \in 1..Len(solids) : \A j \in OverlapClosure({i}) : SameIsland(i, j)
    /\ \A g \in 1..Len(solid_groups) :
          solid_groups[g].rects = UnionOfMembers(solid_groups[g])

C4_DisjointKeptApart ==
    (pc = "merge_done" /\ \A i, j \in 1..Len(solids) : i # j => ~Overlap(i, j)) =>
        /\ Len(solid_groups) = Len(solids)
        /\ \A i \in 1..Len(solids) :
              \E g \in 1..Len(solid_groups) :
                  /\ solid_groups[g].members = {i}
                  /\ solid_groups[g].rects = solids[i].rects

\* --------------------------------------------------- per-element extraction
\* An element is [kind, edge_pts, bb, turned, boundary]:
\*   kind      "wall", "model" (any other model element), "annotation", "room"
\*   edge_pts  wall: the end points of the edges of its solids, flattened
\*   bb        get_BoundingBox: <<>> for None, else <<[Min, Max]>>
\*   turned    model: GetTransform() is a quarter turn (else the identity)
\*   boundary  room: the vertices of its boundary loop, <<>> for no segments

\* distinct_xy: one point per (rounded) XY key, in order of first occurrence.
RECURSIVE distinct_xy(_)
distinct_xy(points) ==
    IF points = <<>> THEN <<>>
    ELSE LET d == distinct_xy(ButLast(points))
             p == points[Len(points)]
         IN  IF p \in Range(d) THEN d ELSE Append(d, p)

\* [XYZ(bb.Min.X, bb.Min.Y, 0), XYZ(bb.Max.X, bb.Min.Y, 0), ...]
bbox_corners(bb) ==
    << Pt(bb.Min.X, bb.Min.Y), Pt(bb.Max.X, bb.Min.Y),
       Pt(bb.Max.X, bb.Max.Y), Pt(bb.Min.X, bb.Max.Y) >>

wall_convex_outline_points(el) ==
    LET pts == IF Len(el.edge_pts) < 3 /\ el.bb # <<>>
               THEN bbox_corners(el.bb[1])
               ELSE el.edge_pts
    IN  convex_hull(distinct_xy(pts))

\* T_inst.OfPoint(p), flattened
OfPoint(turned, p) == IF turned THEN Pt(-p.Y, p.X) ELSE p

model_oriented_bbox_points(el) ==
    IF el.bb = <<>> THEN <<>>
    ELSE [i \in 1..4 |-> OfPoint(el.turned, bbox_corners(el.bb[1])[i])]

\* oriented_bbox_points in a plan view: the view axes are the world axes, so
\* center + x_axis * xmin + y_axis * ymin is the Min corner, and so on.
oriented_bbox_points(el) ==
    IF el.bb = <<>> THEN <<>> ELSE bbox_corners(el.bb[1])

\* return [curveloop_from_points(pts)] if pts else []
loops_of_points(pts) ==
    IF pts = <<>> THEN [raised |-> FALSE, loops |-> <<>>]
    ELSE LET cl == TheOne({curveloop_from_points([i \in 1..Len(pts) |-> RPt(pts[i])])})
         IN  [raised |-> cl.raised, loops |-> IF cl.raised THEN <<>> ELSE <<cl.loop>>]

get_annotation_loops(el) == loops_of_points(oriented_bbox_points(el))

get_model_loops(el) ==
    loops_of_points(IF el.kind = "wall" THEN wall_convex_outline_points(el)
                    ELSE model_oriented_bbox_points(el))

\* for seg in loop: cl.Append(Line.CreateBound(...)): Raised when CreateBound
\* refuses a curve shorter than tol or Append refuses the curve.
RECURSIVE room_loop(_, _, _)
room_loop(ps, i, cl) ==
    IF i > Len(ps) THEN Built(cl)
    ELSE LET c == Line(RPt(ps[i]), RPt(ps[(i % Len(ps)) + 1]))
         IN  IF DistLt(ps[i], ps[(i % Len(ps)) + 1], Tol) \/ AppendRaises(cl, c)
             THEN Raised
             ELSE room_loop(ps, i + 1, Append(cl, c))

\* get_room_loops: its own try/except returns the loops collected so far.
get_room_loops(room) ==
    IF room.boundary = <<>> THEN [raised |-> FALSE, loops |-> <<>>]
    ELSE LET cl == TheOne({room_loop(room.boundary, 1, <<>>)})
         IN  [raised |-> FALSE,
              loops |-> IF ~cl.raised /\ Len(cl.loop) > 1 THEN <<cl.loop>> ELSE <<>>]

\* The points handed to curveloop_from_points (none for a room).
footprint_points(el) ==
    CASE el.kind = "wall" -> wall_convex_outline_points(el)
      [] el.kind = "model" -> model_oriented_bbox_points(el)
      [] el.kind = "annotation" -> oriented_bbox_points(el)
      [] el.kind = "room" -> <<>>

\* main, host element: the extractor chosen by the kind of the element.
extract_loops(el) ==
    CASE el.kind = "room" -> get_room_loops(el)
      [] el.kind = "annotation" -> get_annotation_loops(el)
      [] OTHER -> get_model_loops(el)

\* -------------------------------------------------------------- SpecExtract
ExtractGrid == {Pt(0, 0), Pt(2, 0), Pt(4, 0), Pt(0, 2), Pt(2, 2)}
\* None, a box without height, a box one tol wide and high, a proper box.
ExtractBoxes ==
    { <<>>,
      <<[Min |-> Pt(0, 0), Max |-> Pt(4, 0)]>>,
      <<[Min |-> Pt(0, 0), Max |-> Pt(1, 1)]>>,
      <<[Min |-> Pt(0, 0), Max |-> Pt(4, 2)]>> }
Element(k, e, b, t, r) ==
    [kind |-> k, edge_pts |-> e, bb |-> b, turned |-> t, boundary |-> r]

ExtractInit ==
    /\ pc = "extract"
    /\ appendChecks \in BOOLEAN
    /\ \/ \E e \in SeqsUpTo(ExtractGrid, MaxEdgePts), b \in ExtractBoxes :
             exEl = Element("wall", e, b, FALSE, <<>>)
       \/ \E b \in ExtractBoxes, t \in BOOLEAN :
             exEl = Element("model", <<>>, b, t, <<>>)
       \/ \E b \in ExtractBoxes :
             exEl = Element("annotation", <<>>, b, FALSE, <<>>)
       \/ \E r \in SeqsUpTo(ExtractGrid, MaxEdgePts) :
             exEl = Element("room", <<>>, <<>>, FALSE, r)
    /\ exPts = <<>>
    /\ exLoops = <<>>
    /\ Idle("extract")

\* loops = get_room_loops(el) / get_annotation_loops(el, model_view) /
\* get_model_loops(el, model_view)
ExtractElement ==
    /\ pc = "extract"
    /\ exPts' = footprint_points(exEl)
    /\ \E r \in {extract_loops(exEl)} :
          /\ exLoops' = r.loops
          /\ pc' = IF r.raised THEN "extract_raised" ELSE "extract_done"
    /\ UNCHANGED exEl
    /\ Frame("extract")

ExtractNext == ExtractElement

SpecExtract == ExtractInit /\ [][ExtractNext]_vars

\* ------------------------------------------------- claims on the extraction
\* p1.DistanceTo(p2) < t
RDistLt(p1, p2, t) ==
    LET dx == RSub(p2.X, p1.X)
        dy == RSub(p2.Y, p1.Y)
    IN  RLt(RAdd(RMul(dx, dx), RMul(dy, dy)), RInt(t * t))

\* A loop has at least 3 curves and no curve shorter than tol.
WellFormedLoop(loop) ==
    /\ Len(loop) >= 3
    /\ \A i \in 1..Len(loop) : ~RDistLt(loop[i].s, loop[i].e, Tol)

\* C17: every loop the extraction of an element hands to all_loops has at
\* least 3 vertices and no two consecutive vertices closer than tol.
C17_FootprintsWellFormed ==
    pc = "extract_done" => \A k \in 1..Len(exLoops) : WellFormedLoop(exLoops[k])

RectLoop(r) ==
    curveloop_from_points(
        << RPt(Pt(r.x1, r.y1)), RPt(Pt(r.x2, r.y1)),
           RPt(Pt(r.x2, r.y2)), RPt(Pt(r.x1, r.y2)) >>).loop

\* c.CreateTransformed(T), T = link_inst.GetTotalTransform(): the link is
\* placed 2000 tol along X.
CreateTransformed(c) ==
    [s |-> [X |-> RAdd(c.s.X, RInt(2000)), Y |-> c.s.Y],
     e |-> [X |-> RAdd(c.e.X, RInt(2000)), Y |-> c.e.Y]]

\* new_cl = CurveLoop(); ... new_cl.Append(c.CreateTransformed(T))
transformed_loop(cl) == append_all(<<>>, [i \in 1..Len(cl) |-> CreateTransformed(cl[i])])

\* for cl in loops: ... all_loops.append(new_cl): Raised when an Append
\* raises, with the loops appended before it kept.
RECURSIVE append_transformed(_, _, _)
append_transformed(acc, loops, k) ==
    IF k > Len(loops) THEN [raised |-> FALSE, loops |-> acc]
    ELSE LET n == TheOne({transformed_loop(loops[k])})
         IN  IF n.raised THEN [raised |-> TRUE, loops |-> acc]
             ELSE append_transformed(Append(acc, n.loop), loops, k + 1)

\* The body of `for el in elements: try: ... except: continue`: all_loops
\* after the element.
extract_into(acc, el) ==
    IF el.fails THEN acc
    ELSE LET loops == [k \in 1..Len(el.fps) |-> RectLoop(el.fps[k])]
         IN  IF el.linked
             THEN IF loops = <<>> THEN acc
                  ELSE append_transformed(acc, loops, 1).loops
             ELSE IF loops # <<>> THEN acc \o loops ELSE acc

\* Mutant of extract_all: the first exception ends the loop.
RECURSIVE extract_all_break(_, _, _)
extract_all_break(acc, els, k) ==
    IF k > Len(els) THEN acc
    ELSE IF els[k].fails THEN acc
    ELSE extract_all_break(TheOne({extract_into(acc, els[k])}), els, k + 1)

\* STEP 1-3: for el in elements
RECURSIVE extract_all(_, _, _)
extract_all(acc, els, k) ==
    IF k > Len(els) THEN acc
    ELSE extract_all(TheOne({extract_into(acc, els[k])}), els, k + 1)

\* The scope-box stage: clipped, from `for cl in all_loops` on.
RECURSIVE clip_all(_, _, _, _)
clip_all(acc, loops, k, r) ==
    IF k > Len(loops) THEN [raised |-> FALSE, loops |-> acc]
    ELSE LET pts_clip == TheOne({clip_polygon_to_rect(loop_to_xy_points(loops[k]), r)})
         IN  IF Len(pts_clip) >= 3
             THEN LET cl == TheOne({curveloop_from_points(pts_clip)})
                  IN  IF cl.raised THEN [raised |-> TRUE, loops |-> acc]
                      ELSE clip_all(Append(acc, cl.loop), loops, k + 1, r)
             ELSE clip_all(acc, loops, k + 1, r)

\* ------------------------------------------------------------ main: STEP 4
\* The value of a coordinate that is a whole number.
RVal(a) == a[1] \div a[2]
\* The bounding rectangle of the points of a loop.
loop_rect(loop) ==
    Rect(MinOf({RVal(loop[i].s.X) : i \in 1..Len(loop)}),
         MinOf({RVal(loop[i].s.Y) : i \in 1..Len(loop)}),
         MaxOf({RVal(loop[i].s.X) : i \in 1..Len(loop)}),
         MaxOf({RVal(loop[i].s.Y) : i \in 1..Len(loop)}))

\* Mutant of offset_loop: nothing comes back when the offset raises.
offset_loop_none(loop, dist, raises) ==
    IF raises \/ Len(loop) < 3 THEN <<>>
    ELSE RectLoop(Rect(loop_rect(loop).x1 - dist, loop_rect(loop).y1 - dist,
                       loop_rect(loop).x2 + dist, loop_rect(loop).y2 + dist))

\* offset_loop: CreateViaOffset moves every edge of a counter-clockwise
\* rectangle outwards by dist; when it raises the loop comes back as it is.
\* It raises on a loop that encloses nothing.
offset_loop(loop, dist, raises) ==
    IF raises \/ Len(loop) < 3 THEN loop
    ELSE LET r == loop_rect(loop)
         IN  RectLoop(Rect(r.x1 - dist, r.y1 - dist, r.x2 + dist, r.y2 + dist))

\* make_wafer: the extrusion of the flattened loop, None (<<>>) when
\* anything raises; a loop that encloses nothing cannot be extruded.
make_wafer(loop, raises, k) ==
    IF raises \/ Len(loop) < 3 THEN <<>>
    ELSE <<[members |-> {k}, rects |-> {loop_rect(loop)}, bbOK |-> TRUE]>>

\* for cl in all_loops: ... all_solids.append(solid); lib[k] tells what the
\* library does on loop k: "ok", "offset_raises", "wafer_raises".
RECURSIVE wafers_all(_, _, _, _)
wafers_all(acc, loops, k, lib) ==
    IF k > Len(loops) THEN acc
    ELSE IF Len(loops[k]) < 1 THEN wafers_all(acc, loops, k + 1, lib)
    ELSE LET off == TheOne({offset_loop(loops[k], OFFSET_DIST, lib[k] = "offset_raises")})
             solid == make_wafer(off, lib[k] = "wafer_raises", Len(acc) + 1)
         IN  wafers_all(IF solid # <<>> THEN Append(acc, solid[1]) ELSE acc,
                        loops, k + 1, lib)

\* ------------------------------------------------------------ main: STEP 5
\* The outer loop of the top face of a group: the edges of its rectangle.
outer_loop(g) ==
    LET r == loop_rect(RectLoop(TheOne(g.rects)))
    IN  << Line(Pt(r.x1, r.y1), Pt(r.x2, r.y1)), Line(Pt(r.x2, r.y1), Pt(r.x2, r.y2)),
           Line(Pt(r.x2, r.y2), Pt(r.x1, r.y2)), Line(Pt(r.x1, r.y2), Pt(r.x1, r.y1)) >>

\* map_pt with the crop box and the viewport centred on the origin and no
\* rotation: the point divided by the view scale.
map_pt(p, scale) == Pt(p.X \div scale, p.Y \div scale)

\* The mapped segments: if p1.DistanceTo(p2) > tol: segs.append(...)
RECURSIVE mapped_segs(_, _, _)
mapped_segs(loop, k, scale) ==
    IF k > Len(loop) THEN <<>>
    ELSE LET rest == mapped_segs(loop, k + 1, scale)
         IN  IF DistGt(loop[k].s, loop[k].e, Tol * scale)
             THEN <<Line(map_pt(loop[k].s, scale), map_pt(loop[k].e, scale))>> \o rest
             ELSE rest

map_curve_loop_to_sheet(loop, scale) == stitch(mapped_segs(loop, 1, scale)).loop

\* for s in solid_groups: ...; top[k] tells what the top face of group k
\* gives: "ok", "no_face", "no_outer". Raised when reverse_if_needed raises.
RECURSIVE islands_all(_, _, _, _, _)
islands_all(acc, groups, k, top, scale) ==
    IF k > Len(groups) THEN [raised |-> FALSE, sets |-> acc]
    ELSE IF top[k] # "ok" THEN islands_all(acc, groups, k + 1, top, scale)
    ELSE LET n == TheOne({reverse_if_needed(
                             map_curve_loop_to_sheet(outer_loop(groups[k]), scale))})
         IN  IF n.raised THEN [raised |-> TRUE, sets |-> acc]
             ELSE LET cs == TheOne({step5_curves(n.loop)})
                  IN  islands_all(IF Len(cs) > 0 THEN Append(acc, cs) ELSE acc,
                                  groups, k + 1, top, scale)

\* ---------------------------------------------------------------- SpecMain
\* Footprints, in tol: two squares 1000 apart and one far away.
MainFootprints ==
    << Rect(0, 0, 1000, 1000), Rect(2000, 0, 3000, 1000), Rect(5000, 5000, 6000, 6000) >>
MainElements ==
    {[linked |-> FALSE, fails |-> TRUE, fps |-> <<>>],
     [linked |-> FALSE, fails |-> FALSE, fps |-> <<>>],
     [linked |-> TRUE, fails |-> FALSE, fps |-> <<MainFootprints[1]>>]}
    \cup {[linked |-> FALSE, fails |-> FALSE, fps |-> <<MainFootprints[i]>>] : i \in 1..3}
\* get_scopebox_rect: no scope box, or one around the first two footprints.
MainScopes == {<<>>, <<[xmin |-> 0, ymin |-> 0, xmax |-> 3000, ymax |-> 1000]>>}
MainScales == {100, 10000}

MainInit ==
    /\ pc = "main"
    /\ appendChecks \in BOOLEAN
    /\ elements \in SeqsUpTo(MainElements, MaxElems)
    /\ scope_rect \in MainScopes
    /\ view_scale \in MainScales
    /\ all_loops = <<>>
    /\ extracted = <<>>
    /\ alerts = <<>>
    /\ error = ""
    /\ tx = "none"
    /\ doc_clouds = <<>>
    /\ StitchIdle
    /\ MergeIdle
    /\ Idle("main")

\* What main leaves alone in every step but the one that sets it.
MainInputsKept == UNCHANGED <<elements, scope_rect, view_scale>>
MainStitchKept == UNCHANGED <<segs, sorted_curves, segs_left, closing, cl_sheet,
                              sheet_loop, curves>>
Abort(msg) == pc' = "main_raised" /\ error' = msg

\* main up to `revision = ...`: the view, the selection, the viewport and
\* the revision are checked; each failure raises.
MainSetup ==
    /\ pc = "main"
    /\ \E why \in {"ok", "Wrong view type.", "No viewport found.",
                  "No revisions found.", "User cancelled.", "No elements selected."} :
          /\ why = "No elements selected." => elements = <<>>
          /\ IF why = "ok"
             THEN pc' = "main_extract" /\ error' = error /\ alerts' = alerts
             ELSE /\ Abort(why)
                  /\ alerts' = IF why \in {"Wrong view type.", "No viewport found.",
                                          "No elements selected."}
                               THEN Append(alerts, why) ELSE alerts
    /\ UNCHANGED <<all_loops, extracted, tx, doc_clouds, cloud_curve_sets, mergeVars>>
    /\ MainInputsKept /\ MainStitchKept
    /\ Frame("main")

\* STEP 1-3: all_loops = []; for el in elements: ...
MainExtract ==
    /\ pc = "main_extract"
    /\ \E ls \in {extract_all(<<>>, elements, 1)} :
          all_loops' = ls /\ extracted' = ls
    /\ pc' = "main_clip"
    /\ UNCHANGED <<alerts, error, tx, doc_clouds, cloud_curve_sets, mergeVars>>
    /\ MainInputsKept /\ MainStitchKept
    /\ Frame("main")

\* Optional: clip loops against Scope Box; if not all_loops: raise
MainClip ==
    /\ pc = "main_clip"
    /\ \E r \in {IF scope_rect # <<>> THEN clip_all(<<>>, all_loops, 1, scope_rect[1])
                 ELSE [raised |-> FALSE, loops |-> all_loops]} :
          IF r.raised
          THEN Abort("CurveLoop.Append") /\ all_loops' = all_loops
          ELSE /\ all_loops' = r.loops
               /\ IF r.loops = <<>>
                  THEN Abort("No valid curve loops generated (inside scope box).")
                  ELSE pc' = "main_wafers" /\ error' = error
    /\ UNCHANGED <<extracted, alerts, tx, doc_clouds, cloud_curve_sets, mergeVars>>
    /\ MainInputsKept /\ MainStitchKept
    /\ Frame("main")

\* STEP 4: all_solids; if not all_solids: raise
MainWafers ==
    /\ pc = "main_wafers"
    /\ \E lib \in [1..Len(all_loops) -> {"ok", "offset_raises", "wafer_raises"}] :
          /\ solids' = wafers_all(<<>>, all_loops, 1, lib)
          /\ IF solids' = <<>>
             THEN Abort("No geometry created.")
             ELSE pc' = "main_merge" /\ error' = error
    /\ UNCHANGED <<all_loops, extracted, alerts, tx, doc_clouds, cloud_curve_sets,
                   bad_solids, solid_groups, union_failed>>
    /\ MainInputsKept /\ MainStitchKept
    /\ Frame("main")

\* solid_groups = merge_solids_groups(all_solids); if not solid_groups: raise
MainMerge ==
    /\ pc = "main_merge"
    /\ \E bad \in {{}, 1..Len(solids)} :
          /\ bad_solids' = bad
          /\ \E r \in {merge_solids_groups(solids)} :
                /\ solid_groups' = r.groups
                /\ union_failed' = r.failed
                /\ IF r.groups = <<>>
                   THEN Abort("Failed to assemble solids.")
                   ELSE pc' = "main_islands" /\ error' = error
    /\ UNCHANGED <<all_loops, extracted, alerts, tx, doc_clouds, cloud_curve_sets, solids>>
    /\ MainInputsKept /\ MainStitchKept
    /\ Frame("main")

\* STEP 5: for s in solid_groups: ...; if not cloud_curve_sets: raise
MainIslands ==
    /\ pc = "main_islands"
    /\ \E top \in [1..Len(solid_groups) -> {"ok", "no_face", "no_outer"}] :
       \E r \in {islands_all(<<>>, solid_groups, 1, top, view_scale)} :
          /\ cloud_curve_sets' = r.sets
          /\ IF r.raised THEN Abort("CurveLoop.Append")
             ELSE IF r.sets = <<>> THEN Abort("No curve sets for revision cloud.")
             ELSE pc' = "main_transaction" /\ error' = error
    /\ UNCHANGED <<all_loops, extracted, alerts, tx, doc_clouds, mergeVars>>
    /\ MainInputsKept /\ MainStitchKept
    /\ Frame("main")

\* Mutant of run_transaction: what was created before the exception stays.
run_transaction_keeps(doc, sets, create_raises) ==
    [raised |-> create_raises, tx |-> "committed", doc |-> doc \o sets]

\* with Transaction(...) as t: t.Start(); RevisionCloud.Create for every
\* curve set; t.Commit(). When Create raises, leaving the with block
\* disposes of the started transaction, which rolls it back.
run_transaction(doc, sets, create_raises) ==
    IF create_raises
    THEN [raised |-> TRUE, tx |-> "rolled_back", doc |-> doc]
    ELSE [raised |-> FALSE, tx |-> "committed", doc |-> doc \o sets]

MainTransaction ==
    /\ pc = "main_transaction"
    /\ \E create_raises \in BOOLEAN :
       \E r \in {run_transaction(doc_clouds, cloud_curve_sets, create_raises)} :
          /\ tx' = r.tx
          /\ doc_clouds' = r.doc
          /\ IF r.raised THEN Abort("RevisionCloud.Create")
             ELSE pc' = "main_done" /\ error' = error
    /\ UNCHANGED <<all_loops, extracted, alerts, cloud_curve_sets, mergeVars>>
    /\ MainInputsKept /\ MainStitchKept
    /\ Frame("main")

MainNext ==
    \/ MainSetup
    \/ MainExtract
    \/ MainClip
    \/ MainWafers
    \/ MainMerge
    \/ MainIslands
    \/ MainTransaction

SpecMain == MainInit /\ [][MainNext]_vars

\* ------------------------------------------------------- claims on main
SetupErrors == {"Wrong view type.", "No viewport found.", "No revisions found.",
                "User cancelled.", "No elements selected."}
\* The extraction loop has run.
Extracted ==
    \/ pc \in {"main_clip", "main_wafers", "main_merge", "main_islands",
               "main_transaction", "main_done"}
    \/ pc = "main_raised" /\ error \notin SetupErrors

\* The footprint loops an element contributes: those of a linked element
\* moved by the placement of the link.
Moved(r) == Rect(r.x1 + 2000, r.y1, r.x2 + 2000, r.y2)
FootprintLoops(el) ==
    [k \in 1..Len(el.fps) |-> RectLoop(IF el.linked THEN Moved(el.fps[k]) ELSE el.fps[k])]
RECURSIVE Concat(_)
Concat(ss) == IF ss = <<>> THEN <<>> ELSE Head(ss) \o Concat(Tail(ss))
Readable(el) == ~el.fails
Skipped(el) == el.fails \/ el.fps = <<>>

C11_AbortOnlyWithoutFootprints ==
    (pc = "main_raised" /\ error \notin SetupErrors) => extracted = <<>>

\* C13: a call that skipped an element or had a failed union tells the user
\* about it.
C13_SkipsSurfaced ==
    (pc = "main_done" /\ ((\E k \in 1..Len(elements) : Skipped(elements[k]))
                          \/ union_failed))
        => alerts # <<>>

\* C14: every island of the merger yields an output polygon: the finished
\* call has one curve set per island.
C14_EveryIslandMapped ==
    pc \in {"main_transaction", "main_done"}
        => Len(cloud_curve_sets) = Len(solid_groups)

\* C15: with a scope box, every polygon handed to merge_solids_groups lies
\* within the clip rectangle.
C15_MergedPolygonsInsideClip ==
    (pc \in {"main_merge", "main_islands", "main_transaction", "main_done"}
     /\ scope_rect # <<>>)
        => \A k \in 1..Len(solids) : \A r \in solids[k].rects :
              /\ scope_rect[1].xmin <= r.x1 /\ r.x2 <= scope_rect[1].xmax
              /\ scope_rect[1].ymin <= r.y1 /\ r.y2 <= scope_rect[1].ymax

\* C20 as stated: an aborted call has started no transaction.
C20_AbortBeforeTransaction ==
    pc = "main_raised" => tx = "none"
\* C20: the elements are never written, the document is written only by the
\* committing transaction, and an aborted call leaves no committed
\* transaction and an unchanged document.
C20_OnlyCommittedTransactionWrites ==
    /\ [](pc = "main_raised" => (tx \in {"none", "rolled_back"} /\ doc_clouds = <<>>))
    /\ [][/\ elements' = elements
          /\ doc_clouds' # doc_clouds => (pc = "main_transaction" /\ tx' = "committed")]_vars
C20_Witness ==
    pc = "main_raised" /\ tx = "rolled_back" /\ cloud_curve_sets # <<>>

\* ------------------------------------------------------- SpecMergeSteps
\* merge_solids_groups pass by pass: the greedy pass, then one re-scan pass
\* per step while `changed and len(groups) > 1`.
\* Footprints, in tol: the two bars of an L as separate polygons, a square in
\* the hollow of the L, and a square far away.
MergePieces ==
    << Rect(0, 200, 100, 230), Rect(0, 200, 30, 300),
       Rect(60, 260, 90, 290), Rect(500, 500, 600, 600) >>

\* merge_solids_groups(solids) is called: the polygons, those whose
\* bounding box cannot be read and those every union fails on.
MergeStepsInit ==
    /\ pc = "merge"
    /\ appendChecks = TRUE
    /\ \E n \in 0..MaxSolids :
          /\ \E f \in [1..n -> 1..Len(MergePieces)], ok \in [1..n -> BOOLEAN] :
                solids = [i \in 1..n |-> [members |-> {i},
                                          rects |-> {MergePieces[f[i]]},
                                          bbOK |-> ok[i]]]
          /\ bad_solids \in SUBSET (1..n)
    /\ solid_groups = <<>>
    /\ union_failed = FALSE
    /\ Idle("merge")

\* if not solids: return []; the greedy pass; changed = True
MergeGreedy ==
    /\ pc = "merge"
    /\ IF solids = <<>>
       THEN /\ solid_groups' = <<>>
            /\ union_failed' = union_failed
            /\ pc' = "merge_done"
       ELSE \E st \in {place_all([groups |-> <<>>, failed |-> FALSE], solids, 1)} :
               /\ solid_groups' = st.groups
               /\ union_failed' = st.failed
               /\ pc' = "merge_rescan"
    /\ UNCHANGED <<solids, bad_solids>>
    /\ Frame("merge")

\* One round of `while changed and len(groups) > 1`
MergePass ==
    /\ pc = "merge_rescan"
    /\ Len(solid_groups) > 1
    /\ \E r \in {rescan_pass(solid_groups, <<>>, FALSE, union_failed)} :
          /\ solid_groups' = r.groups
          /\ union_failed' = r.failed
          /\ pc' = IF r.changed THEN "merge_rescan" ELSE "merge_fixed"
    /\ UNCHANGED <<solids, bad_solids>>
    /\ Frame("merge")

\* The loop condition is false: return groups
MergeReturn ==
    /\ \/ pc = "merge_rescan" /\ Len(solid_groups) <= 1
       \/ pc = "merge_fixed"
    /\ pc' = "merge_done"
    /\ UNCHANGED <<solids, bad_solids, solid_groups, union_failed>>
    /\ Frame("merge")

MergeStepsNext ==
    \/ MergeGreedy
    \/ MergePass
    \/ MergeReturn

\* The function runs to its return once called: each step is taken.
SpecMergeSteps == MergeStepsInit /\ [][MergeStepsNext]_vars /\ WF_vars(MergeStepsNext)

\* ----------------------------------------------- claims on the merge passes
GreedyGroups == place_all([groups |-> <<>>, failed |-> FALSE], solids, 1).groups

\* C24 as stated: the result has at least 1 and at most as many islands as
\* there are input polygons, for every input.
C24_AtLeastOneIsland ==
    pc = "merge_done"
        => (1 <= Len(solid_groups) /\ Len(solid_groups) <= Len(solids))

\* C24: merge_solids_groups returns for every input, whether unions succeed
\* or fail; every re-scan pass that reports a change leaves fewer islands
\* than it found; for a non-empty input the result has at least 1 and at
\* most as many islands as input polygons, for the empty input it is empty.
C24_TerminatesAndShrinks ==
    /\ <>(pc = "merge_done")
    /\ [][(pc = "merge_rescan" /\ pc' = "merge_rescan")
             => Len(solid_groups') < Len(solid_groups)]_vars
    /\ [](pc = "merge_done" =>
            IF solids = <<>> THEN solid_groups = <<>>
            ELSE 1 <= Len(solid_groups) /\ Len(solid_groups) <= Len(solids))
\* A re-scan pass has reported a change: the greedy pass left two islands
\* and one is left.
C24_Witness ==
    /\ pc = "merge_rescan"
    /\ Len(GreedyGroups) = 2
    /\ Len(solid_groups) = 1

\* C29: every input polygon is a member of exactly one returned island, no
\* island has a member that is not an input polygon, and this holds after
\* the greedy pass and after every re-scan pass, whether unions succeed or
\* fail and whether or not bounding boxes can be read.
C29_EveryPolygonInOneIsland ==
    pc \in {"merge_rescan", "merge_fixed", "merge_done"} =>
        /\ \A i \in 1..Len(solids) :
              Cardinality({g \in 1..Len(solid_groups) :
                              i \in solid_groups[g].members}) = 1
        /\ \A g \in 1..Len(solid_groups) :
              /\ solid_groups[g].members # {}
              /\ solid_groups[g].members \subseteq 1..Len(solids)
\* Three polygons: one whose bounding box cannot be read, one every union
\* fails on, and the result after a re-scan pass.
C29_Witness ==
    /\ pc = "merge_done"
    /\ Len(solids) = 3
    /\ \E i \in 1..3 : ~solids[i].bbOK
    /\ \E i \in bad_solids : solids[i].bbOK
    /\ union_failed

PartitionOf(groups) == {groups[g].members : g \in 1..Len(groups)}
InputOrders(n) == {p \in [1..n -> 1..n] : \A i, j \in 1..n : p[i] = p[j] => i = j}

\* C25: when every union succeeds, merge_solids_groups returns the same
\* partition of the input polygons for every permutation of the input list.
C25_OrderIndependent ==
    (pc = "merge_done" /\ bad_solids = {}) =>
        \A p \in InputOrders(Len(solids)) :
            PartitionOf(merge_solids_groups(
                            [i \in 1..Len(solids) |-> solids[p[i]]]).groups)
                = PartitionOf(solid_groups)
\* The input order on which the greedy pass leaves the square apart from
\* the two bars of the L, which the re-scan then joins.
C25_Witness ==
    /\ pc = "merge_done"
    /\ bad_solids = {}
    /\ Len(solids) = 3
    /\ \A i \in 1..3 : solids[i].bbOK
    /\ solids[1].rects = {MergePieces[3]}
    /\ solids[2].rects = {MergePieces[2]}
    /\ solids[3].rects = {MergePieces[1]}
    /\ PartitionOf(GreedyGroups) = {{1}, {2, 3}}
    /\ PartitionOf(solid_groups) = {{1, 2, 3}}

\* ------------------------------------------------------ claims on STEP 4
Grown(r) == Rect(r.x1 - OFFSET_DIST, r.y1 - OFFSET_DIST,
                 r.x2 + OFFSET_DIST, r.y2 + OFFSET_DIST)

\* C22: when the offset fails offset_loop returns the loop it was given,
\* and STEP 4 goes on with it: whichever offsets fail, every loop yields
\* its wafer, un-offset where the offset failed, and the call does not stop.
C22_OffsetFailureKeepsPolygon ==
    pc = "main_wafers" =>
        \A lib \in [1..Len(all_loops) -> {"ok", "offset_raises"}] :
            LET w == wafers_all(<<>>, all_loops, 1, lib)
            IN  /\ Len(w) = Len(all_loops)
                /\ \A k \in 1..Len(w) :
                      /\ offset_loop(all_loops[k], OFFSET_DIST, TRUE) = all_loops[k]
                      /\ w[k].rects = {IF lib[k] = "offset_raises"
                                       THEN loop_rect(all_loops[k])
                                       ELSE Grown(loop_rect(all_loops[k]))}
\* STEP 4 has run on two loops, the offset of the first failed, and both
\* wafers are there: the first un-offset, the second offset.
C22_Witness ==
    /\ pc = "main_merge"
    /\ Len(all_loops) = 2
    /\ Len(solids) = 2
    /\ solids[1].rects = {loop_rect(all_loops[1])}
    /\ solids[2].rects = {Grown(loop_rect(all_loops[2]))}

\* ------------------------------------------------- claims on the chain
\* The input segment a chain entry was made from, and the input segments
\* not yet in the chain before its entry i, in iteration order.
InputOf(c) == CHOOSE j \in 1..Len(segs) : segs[j] \in {c, CreateReversed(c)}
TakenBefore(i) == {InputOf(sorted_curves[k]) : k \in 1..(i - 1)}
Near(p, q) == DistSq(p, q) < (Tol * ConnFactor) * (Tol * ConnFactor)
Touches(p, c) == Near(p, c.s) \/ Near(p, c.e)

exact_pt(p, scale, shift) == Pt(p.X \div scale + shift, p.Y \div scale)

\* The try block from `it = loop.GetCurveLoopIterator()` on: the exact image
\* of every edge longer than tol, until edge number raises_at raises.
RECURSIVE exact_segs(_, _, _, _, _, _)
exact_segs(acc, loop, k, scale, shift, raises_at) ==
    IF k > Len(loop) THEN [raised |-> FALSE, segs |-> acc]
    ELSE IF k = raises_at THEN [raised |-> TRUE, segs |-> acc]
    ELSE exact_segs(
            IF DistGt(loop[k].s, loop[k].e, Tol * scale)
            THEN Append(acc, [src |-> k, via |-> "exact",
                              seg |-> Line(exact_pt(loop[k].s, scale, shift),
                                           exact_pt(loop[k].e, scale, shift))])
            ELSE acc,
            loop, k + 1, scale, shift, raises_at)

\* The except block: the fallback image of every edge longer than tol is
\* appended to segs as the try block left it.
RECURSIVE fallback_segs(_, _, _, _)
fallback_segs(acc, loop, k, scale) ==
    IF k > Len(loop) THEN acc
    ELSE fallback_segs(
            IF DistGt(loop[k].s, loop[k].e, Tol * scale)
            THEN Append(acc, [src |-> k, via |-> "fallback",
                              seg |-> Line(map_pt(loop[k].s, scale),
                                           map_pt(loop[k].e, scale))])
            ELSE acc,
            loop, k + 1, scale)

\* segs when the try/except is left. raises_at = 0: the transform chain is
\* not resolved (`raise Exception("No transform found.")`).
fill_segs(loop, scale, shift, raises_at) ==
    IF raises_at = 0 THEN fallback_segs(<<>>, loop, 1, scale)
    ELSE TheOne({IF ex.raised THEN fallback_segs(ex.segs, loop, 1, scale) ELSE ex.segs :
                 ex \in {exact_segs(<<>>, loop, 1, scale, shift, raises_at)}})

\* The outer loops of three islands, in tol.
MapLoops ==
    {outer_loop([rects |-> {r}]) :
        r \in {Rect(0, 0, 1000, 1000), Rect(0, 0, 3000, 50), Rect(-300, -300, 1300, 1300)}}

\* The exact transform agrees with the fallback, or not.
MapShifts == {0, 7}

MapInit ==
    /\ pc = "map"
    /\ appendChecks = TRUE
    /\ \E l \in MapLoops, sc \in MainScales, sh \in MapShifts :
       \E ra \in 0..(Len(l) + 1) :
          mapIn = [loop |-> l, scale |-> sc, shift |-> sh, raises_at |-> ra]
    /\ mapSegs = <<>>
    /\ Idle("map")

MapFill ==
    /\ pc = "map"
    /\ mapSegs' = fill_segs(mapIn.loop, mapIn.scale, mapIn.shift, mapIn.raises_at)
    /\ pc' = "map_filled"
    /\ UNCHANGED mapIn
    /\ Frame("map")

MapNext == MapFill

SpecMapSegs == MapInit /\ [][MapNext]_vars

\* C27: the segments handed to the stitcher come from one path only: all
\* exact or all fallback, each source edge at most once, and fallback ones
\* only when the exact path raised.
C27_OnePathOnly ==
    pc = "map_filled" =>
        /\ \A i, j \in 1..Len(mapSegs) : mapSegs[i].via = mapSegs[j].via
        /\ \A i, j \in 1..Len(mapSegs) : mapSegs[i].src = mapSegs[j].src => i = j
        /\ (\E i \in 1..Len(mapSegs) : mapSegs[i].via = "fallback")
              => mapIn.raises_at \in 0..Len(mapIn.loop)

\* ---------------------------------------------------------- SpecMergeClouds
\* MergeRevisionClouds/script.py, the script body.
\* The revision clouds of the document before the script runs, and the
\* cloud RevisionCloud.Create adds.
McDocBefore == 1..MaxClouds
NewCloud == MaxClouds + 1
\* The selections: any of the clouds, each once, in any order.
McSelections ==
    {q \in SeqsUpTo(McDocBefore, MaxClouds) : \A i, j \in 1..Len(q) : q[i] = q[j] => i = j}

\* Mutant of RollBack: what the transaction wrote stays.
RollBack_keeps(before, now) == now
\* Leaving `with Transaction(...) as t` by an exception after t.Start():
\* the transaction is disposed of and its writes are undone.
RollBack(before, now) == before

McInit ==
    /\ pc = "mc"
    /\ appendChecks = TRUE
    /\ mcDoc = McDocBefore
    /\ mcClouds \in McSelections
    /\ mcTx = "none"
    /\ mcError = ""
    /\ mcDeleted = 0
    /\ Idle("mc")

McRaise(msg) == pc' = "mc_raised" /\ mcError' = msg

\* if len(clouds) < 2: raise Exception("Select at least 2 revision clouds.")
McSelect ==
    /\ pc = "mc"
    /\ IF Len(mcClouds) < 2
       THEN McRaise("Select at least 2 revision clouds.")
       ELSE pc' = "mc_wafers" /\ mcError' = mcError
    /\ UNCHANGED <<mcDoc, mcClouds, mcTx, mcDeleted>>
    /\ Frame("mc")

\* Build wafers: get_cloud_loops and loop_to_wafer per cloud; either raises.
McWafers ==
    /\ pc = "mc_wafers"
    /\ \E out \in {"ok", "Cloud has no sketch curves.", "CurveLoop.Append",
                  "CreateExtrusionGeometry"} :
          IF out = "ok" THEN pc' = "mc_union" /\ mcError' = mcError
          ELSE McRaise(out)
    /\ UNCHANGED <<mcDoc, mcClouds, mcTx, mcDeleted>>
    /\ Frame("mc")

\* merged = boolean_union(wafers)
McUnion ==
    /\ pc = "mc_union"
    /\ \E out \in {"ok", "ExecuteBooleanOperation"} :
          IF out = "ok" THEN pc' = "mc_outer" /\ mcError' = mcError
          ELSE McRaise(out)
    /\ UNCHANGED <<mcDoc, mcClouds, mcTx, mcDeleted>>
    /\ Frame("mc")

\* top = get_top_face(merged) ... outer = reverse_if_needed(outer) ... curves
McOuter ==
    /\ pc = "mc_outer"
    /\ \E out \in {"ok", "Top face not found.", "Could not determine outer loop.",
                  "CurveLoop.Append"} :
          IF out = "ok" THEN pc' = "mc_start" /\ mcError' = mcError
          ELSE McRaise(out)
    /\ UNCHANGED <<mcDoc, mcClouds, mcTx, mcDeleted>>
    /\ Frame("mc")

\* with Transaction(doc, "Merge Revision Clouds") as t: t.Start()
McStart ==
    /\ pc = "mc_start"
    /\ mcTx' = "started"
    /\ pc' = "mc_create"
    /\ UNCHANGED <<mcDoc, mcClouds, mcError, mcDeleted>>
    /\ Frame("mc")

\* new_cloud = RevisionCloud.Create(doc, view, revision_id, curves); the
\* Comments parameter is set inside try/except: pass
McCreate ==
    /\ pc = "mc_create"
    /\ \E raises \in BOOLEAN :
          IF raises
          THEN /\ McRaise("RevisionCloud.Create")
               /\ mcTx' = "rolled_back"
               /\ mcDoc' = RollBack(McDocBefore, mcDoc)
          ELSE /\ mcDoc' = mcDoc \cup {NewCloud}
               /\ pc' = "mc_delete"
               /\ UNCHANGED <<mcTx, mcError>>
    /\ UNCHANGED <<mcClouds, mcDeleted>>
    /\ Frame("mc")

\* for c in clouds: doc.Delete(c.Id), one cloud per step
McDelete ==
    /\ pc = "mc_delete"
    /\ mcDeleted < Len(mcClouds)
    /\ \E raises \in BOOLEAN :
          IF raises
          THEN /\ McRaise("doc.Delete")
               /\ mcTx' = "rolled_back"
               /\ mcDoc' = RollBack(McDocBefore, mcDoc)
               /\ UNCHANGED mcDeleted
          ELSE /\ mcDoc' = mcDoc \ {mcClouds[mcDeleted + 1]}
               /\ mcDeleted' = mcDeleted + 1
               /\ UNCHANGED <<pc, mcTx, mcError>>
    /\ UNCHANGED mcClouds
    /\ Frame("mc")

\* t.Commit()
McCommit ==
    /\ pc = "mc_delete"
    /\ mcDeleted = Len(mcClouds)
    /\ mcTx' = "committed"
    /\ pc' = "mc_done"
    /\ UNCHANGED <<mcDoc, mcClouds, mcError, mcDeleted>>
    /\ Frame("mc")

McNext ==
    \/ McSelect
    \/ McWafers
    \/ McUnion
    \/ McOuter
    \/ McStart
    \/ McCreate
    \/ McDelete
    \/ McCommit

SpecMergeClouds == McInit /\ [][McNext]_vars

\* C21: with at least 2 clouds selected a finished run has replaced them
\* by exactly one new cloud; the document is written only inside the one
\* started transaction; at no time is a selected cloud gone without the
\* merged cloud being there; a run that raises, with fewer than 2 clouds
\* selected or at any later failure, leaves the document as it was.
C21_MergeIsAtomic ==
    /\ []((\E i \in 1..Len(mcClouds) : mcClouds[i] \notin mcDoc) => NewCloud \in mcDoc)
    /\ [](pc = "mc_done" =>
            /\ Len(mcClouds) >= 2
            /\ mcTx = "committed"
            /\ mcDoc = (McDocBefore \ Range(mcClouds)) \cup {NewCloud})
    /\ [](pc = "mc_raised" => (mcDoc = McDocBefore /\ mcTx # "committed"))
    /\ [](Len(mcClouds) < 2 => pc \in {"mc", "mc_raised"})
    /\ [][mcDoc' # mcDoc => mcTx = "started"]_vars
\* Two of three clouds were selected and the run is finished.
C21_Witness ==
    /\ pc = "mc_done"
    /\ Len(mcClouds) = 2
    /\ Cardinality(mcDoc) = 2
\* A run that raised while deleting, after the merged cloud was created and
\* a selected cloud deleted.
C21_WitnessRolledBack ==
    /\ pc = "mc_raised"
    /\ mcError = "doc.Delete"
    /\ mcDeleted >= 1

\* ----------------------------------------------------------------- SpecHooks
\* hooks/view-activated.py, doc-saved.py, doc-opened.py for one document.
\* str(time.time()) read back by float(x[1]): the nearest hundredth.
str_time(t) == ((t + TimeGrain \div 2) \div TimeGrain) * TimeGrain

\* A title is the list of its parts between "|" characters.
\* f.write(str(title) + "|" + str(time.time())), then line.split("|")
written(title, t) == [exists |-> TRUE, x |-> title \o <<str_time(t)>>]
NoFile == [exists |-> FALSE, x |-> <<>>]
EmptyFile == [exists |-> TRUE, x |-> <<>>]

\* active = not doc.IsDetached and not doc.IsFamilyDocument and len(doc.PathName) > 0
active(d) == ~d.detached /\ ~d.family /\ d.has_path

\* os.path.exists(savestatus_datafile) and os.stat(savestatus_datafile).st_size > 0
has_data(f) == f.exists /\ f.x # <<>>

\* Mutant of autosave_due: the interval is not looked at.
autosave_due_always(d, f, now, interval, same_doc) ==
    /\ <<f.x[1]>> = d.title
    /\ same_doc

\* str(title) == x[0] and time.time() - float(x[1]) >= interval and (pview == cview)
autosave_due(d, f, now, interval, same_doc) ==
    /\ <<f.x[1]>> = d.title
    /\ now - f.x[2] >= interval
    /\ same_doc

HookDocs ==
    {[title |-> t, detached |-> k = "detached", family |-> k = "family",
      has_path |-> k # "unsaved"] :
        t \in {<<"A">>, <<"A", "B">>}, k \in {"project", "detached", "family", "unsaved"}}
\* user_config.autosave.interval, in ticks
HookIntervals == {TimeGrain, 2 * TimeGrain}

HookInit ==
    /\ pc = "hook"
    /\ appendChecks = TRUE
    /\ hkNow = 0
    /\ hkDoc \in HookDocs
    /\ hkFile \in {NoFile, EmptyFile, written(hkDoc.title, 0)}
    /\ hkEnabled \in BOOLEAN
    /\ hkInterval \in HookIntervals
    /\ hkSaves = <<>>
    /\ Idle("hook")

\* time passes
HookTick ==
    /\ pc \in {"hook", "hook_view", "hook_saved", "hook_opened", "hook_config", "hook_tick"}
    /\ hkNow < MaxTime
    /\ hkNow' = hkNow + 1
    /\ pc' = "hook_tick"
    /\ UNCHANGED <<hkFile, hkEnabled, hkInterval, hkDoc, hkSaves>>
    /\ Frame("hook")

\* view-activated.py: same_doc is pview == cview; doc.Save() may raise.
HookViewActivated ==
    /\ pc \in {"hook", "hook_view", "hook_saved", "hook_opened", "hook_config", "hook_tick"}
    /\ \E same_doc, save_raises \in BOOLEAN :
          IF hkEnabled /\ active(hkDoc)
          THEN IF has_data(hkFile)
               THEN IF autosave_due(hkDoc, hkFile, hkNow, hkInterval, same_doc)
                       /\ ~save_raises
                    THEN /\ hkSaves' = Append(hkSaves, [at |-> hkNow,
                                                        interval |-> hkInterval,
                                                        same_doc |-> same_doc])
                         /\ hkFile' = written(hkDoc.title, hkNow)
                    ELSE UNCHANGED <<hkSaves, hkFile>>
               ELSE /\ hkFile' = written(hkDoc.title, hkNow)
                    /\ UNCHANGED hkSaves
          ELSE UNCHANGED <<hkSaves, hkFile>>
    /\ pc' = "hook_view"
    /\ UNCHANGED <<hkNow, hkEnabled, hkInterval, hkDoc>>
    /\ Frame("hook")

\* doc-saved.py: the user saved the document
HookDocSaved ==
    /\ pc \in {"hook", "hook_view", "hook_saved", "hook_opened", "hook_config", "hook_tick"}
    /\ hkFile' = written(hkDoc.title, hkNow)
    /\ pc' = "hook_saved"
    /\ UNCHANGED <<hkNow, hkEnabled, hkInterval, hkDoc, hkSaves>>
    /\ Frame("hook")

\* doc-opened.py
HookDocOpened ==
    /\ pc \in {"hook", "hook_view", "hook_saved", "hook_opened", "hook_config", "hook_tick"}
    /\ hkFile' = written(hkDoc.title, hkNow)
    /\ pc' = "hook_opened"
    /\ UNCHANGED <<hkNow, hkEnabled, hkInterval, hkDoc, hkSaves>>
    /\ Frame("hook")

\* The Autosave button and Set Interval change the configuration.
HookConfig ==
    /\ pc \in {"hook", "hook_view", "hook_saved", "hook_opened", "hook_config", "hook_tick"}
    /\ hkEnabled' \in BOOLEAN
    /\ hkInterval' \in HookIntervals
    /\ pc' = "hook_config"
    /\ UNCHANGED <<hkNow, hkFile, hkDoc, hkSaves>>
    /\ Frame("hook")

HookNext ==
    \/ HookTick
    \/ HookViewActivated
    \/ HookDocSaved
    \/ HookDocOpened
    \/ HookConfig

SpecHooks == HookInit /\ [][HookNext]_vars

\* ------------------------------------------------------ claims on the hooks
\* The hook saves only when autosave is enabled, the document qualifies, the
\* status record has its title, the interval has passed since the stored
\* timestamp and both views are of the same document; the save refreshes
\* the timestamp.
SavesOnlyWhenDue ==
    [][hkSaves' # hkSaves =>
          /\ hkEnabled
          /\ active(hkDoc)
          /\ has_data(hkFile)
          /\ <<hkFile.x[1]>> = hkDoc.title
          /\ hkNow - hkFile.x[2] >= hkInterval
          /\ hkSaves'[Len(hkSaves')].same_doc
          /\ hkFile' = written(hkDoc.title, hkNow)]_vars
\* Two autosaves in a row are at least `slack` less than the interval apart.
SavesApart(slack) ==
    \A i \in 2..Len(hkSaves) :
        hkSaves[i].at - hkSaves[i - 1].at >= hkSaves[i].interval - slack

\* C28 as stated: saves only when due, two autosaves at least one interval
\* apart, and a view activation that finds the status file missing or
\* empty writes the timestamp without saving.
C28_AutosaveAsStated ==
    /\ SavesOnlyWhenDue
    /\ []SavesApart(0)
    /\ [][(pc' = "hook_view" /\ ~has_data(hkFile))
             => (has_data(hkFile') /\ hkSaves' = hkSaves)]_vars
\* Two autosaves at least one interval apart, taken alone.
C28_SavesOneIntervalApart == SavesApart(0)

\* C28: saves only when due; two autosaves are at least one interval apart
\* less the rounding of the stored timestamp; a view activation that finds
\* the status file missing or empty writes the timestamp without saving
\* when autosave is enabled and the document qualifies, and does nothing
\* otherwise.
C28_AutosaveGuarded ==
    /\ SavesOnlyWhenDue
    /\ []SavesApart(TimeGrain \div 2)
    /\ [][(pc' = "hook_view" /\ ~has_data(hkFile)) =>
             /\ hkSaves' = hkSaves
             /\ hkFile' = IF hkEnabled /\ active(hkDoc)
                          THEN written(hkDoc.title, hkNow) ELSE hkFile]_vars
\* The hook has saved the document twice.
C28_Witness == Len(hkSaves) = 2

\* ---------------------------------------------------------- SpecCloudLoops
\* MergeRevisionClouds/script.py, get_cloud_loops.
\* round(x, 6) of a non-negative coordinate, in steps of KeyGrain raw units.
round6(x) == (2 * x + KeyGrain) \div (2 * KeyGrain)
\* key(p): the point rounded to six decimals.
key(p) == <<round6(p[1]), round6(p[2])>>

\* Mutant of appended: the curve is appended as it is stored.
appended_as_is(c, rev_flag) == c
\* The curve handed to loop.Append: remove.CreateReversed() when matched by
\* its end point, else remove.
appended(c, rev_flag) == IF rev_flag THEN CreateReversed(c) ELSE c

\* The curves of `unused` (indices into curves) that the for loop can stop
\* at: a set is iterated in no particular order, and the loop breaks at the
\* first curve that starts or ends at endpt.
matches(sketch_curves, unused, endpt) ==
    {i \in unused : key(sketch_curves[i].s) = endpt \/ key(sketch_curves[i].e) = endpt}
\* rev_flag of the match: False when the start matches, else True.
rev_flag_of(c, endpt) == key(c.s) # endpt
\* The curves a CurveLoop holds.
CurvesOf(loop) == [i \in 1..Len(loop) |-> loop[i].c]

\* The sketches: a chain of n curves through the points GclPoint(0..n),
\* closed back to GclPoint(0) or open, some curves stored end to start, and
\* one curve's start point off by `drift` raw units.
GclPoint(i) == <<10 * KeyGrain * i, 10 * KeyGrain * ((i * i) % 5)>>
GclDrifts == {1, KeyGrain \div 2}
sketch(n, closed, flips, at, drift) ==
    [i \in 1..n |->
        LET p == IF i = at THEN <<GclPoint(i - 1)[1] + drift, GclPoint(i - 1)[2]>>
                 ELSE GclPoint(i - 1)
            q == IF closed /\ i = n THEN GclPoint(0) ELSE GclPoint(i)
        IN  IF i \in flips THEN Line(q, p) ELSE Line(p, q)]

GclInit ==
    /\ pc = "gcl"
    /\ appendChecks \in BOOLEAN
    /\ \E n \in 0..MaxCurves, closed \in BOOLEAN :
       \E flips \in SUBSET (1..n), at \in 0..n, drift \in GclDrifts :
          /\ closed => n >= 2
          /\ at = 0 => drift = 1
          /\ gclCurves = sketch(n, closed, flips, at, drift)
    /\ gclUnused = {}
    /\ gclLoops = <<>>
    /\ gclLoop = <<>>
    /\ gclEndpt = <<>>
    /\ Idle("gcl")

\* curves = list(cloud.GetSketchCurves()); if not curves: raise;
\* unused = set(curves); loops = []
GclEnter ==
    /\ pc = "gcl"
    /\ IF gclCurves = <<>>
       THEN pc' = "gcl_raised" /\ UNCHANGED gclUnused
       ELSE pc' = "gcl_while" /\ gclUnused' = 1..Len(gclCurves)
    /\ UNCHANGED <<gclCurves, gclLoops, gclLoop, gclEndpt>>
    /\ Frame("gcl")

\* while unused: start = unused.pop(); loop = CurveLoop(); loop.Append(start);
\* endpt = key(start.GetEndPoint(1))
GclPop ==
    /\ pc = "gcl_while"
    /\ \E start \in gclUnused :
          /\ gclUnused' = gclUnused \ {start}
          /\ gclLoop' = <<[of |-> start, rev |-> FALSE, c |-> gclCurves[start]]>>
          /\ gclEndpt' = key(gclCurves[start].e)
    /\ pc' = "gcl_made"
    /\ UNCHANGED <<gclCurves, gclLoops>>
    /\ Frame("gcl")

\* One round of `while made` that found a curve: unused.remove(remove), then
\* loop.Append of the curve or of its reverse, which may raise, then endpt.
GclExtend ==
    /\ pc = "gcl_made"
    /\ \E remove \in matches(gclCurves, gclUnused, gclEndpt) :
       \E rev_flag \in {rev_flag_of(gclCurves[remove], gclEndpt)} :
       \E c \in {appended(gclCurves[remove], rev_flag)} :
          /\ gclUnused' = gclUnused \ {remove}
          /\ IF AppendRaises(CurvesOf(gclLoop), c)
             THEN /\ pc' = "gcl_raised"
                  /\ UNCHANGED <<gclLoop, gclEndpt>>
             ELSE /\ gclLoop' = Append(gclLoop, [of |-> remove, rev |-> rev_flag, c |-> c])
                  /\ gclEndpt' = IF rev_flag THEN key(gclCurves[remove].s)
                                 ELSE key(gclCurves[remove].e)
                  /\ pc' = "gcl_made"
    /\ UNCHANGED <<gclCurves, gclLoops>>
    /\ Frame("gcl")

\* The round of `while made` that found no curve: loops.append(loop).
GclClose ==
    /\ pc = "gcl_made"
    /\ matches(gclCurves, gclUnused, gclEndpt) = {}
    /\ gclLoops' = Append(gclLoops, gclLoop)
    /\ pc' = "gcl_while"
    /\ UNCHANGED <<gclCurves, gclUnused, gclLoop, gclEndpt>>
    /\ Frame("gcl")

\* unused is empty: return loops
GclReturn ==
    /\ pc = "gcl_while"
    /\ gclUnused = {}
    /\ pc' = "gcl_done"
    /\ UNCHANGED gclVars
    /\ Frame("gcl")

GclNext == GclEnter \/ GclPop \/ GclExtend \/ GclClose \/ GclReturn

\* The function runs sequentially to its return or to an exception.
SpecCloudLoops == GclInit /\ [][GclNext]_vars /\ WF_vars(GclNext)

\* The places <<loop, position>> where curve i stands in the rebuilt loops.
PlacesOf(i) ==
    {q \in (1..Len(gclLoops)) \X (1..MaxCurves + 1) :
        q[2] <= Len(gclLoops[q[1]]) /\ gclLoops[q[1]][q[2]].of = i}
\* Every sketch curve stands in exactly one rebuilt loop, once.
GclPartition == \A i \in 1..Len(gclCurves) : Cardinality(PlacesOf(i)) = 1
\* Inside loop l every entry is its sketch curve, reversed exactly when it
\* was matched by its end point only, and starts at the rounded end point
\* of the entry before it.
GclChained(l) ==
    \A j \in 1..Len(l) :
        /\ l[j].c = IF l[j].rev THEN CreateReversed(gclCurves[l[j].of])
                    ELSE gclCurves[l[j].of]
        /\ j > 1 =>
              /\ key(l[j].c.s) = key(l[j - 1].c.e)
              /\ l[j].rev = (key(gclCurves[l[j].of].s) # key(l[j - 1].c.e))
        /\ j = 1 => ~l[j].rev
\* A loop under construction grows by one curve at its tail, and a loop
\* that was added to `loops` stays as it is.
GclTailOnly ==
    [][/\ (pc = "gcl_made" /\ pc' = "gcl_made") =>
              /\ Len(gclLoop') = Len(gclLoop) + 1
              /\ SubSeq(gclLoop', 1, Len(gclLoop)) = gclLoop
       /\ Len(gclLoops') >= Len(gclLoops)
       /\ SubSeq(gclLoops', 1, Len(gclLoops)) = gclLoops]_vars

\* C30 as stated: get_cloud_loops returns for every cloud, with every
\* sketch curve in exactly one rebuilt loop, each curve starting at the
\* rounded end point of the curve before it, loops extended at the tail.
C30_AlwaysPartitions ==
    /\ <>(pc = "gcl_done")
    /\ [](pc = "gcl_done" => GclPartition /\ \A k \in 1..Len(gclLoops) : GclChained(gclLoops[k]))
    /\ GclTailOnly

\* C30: get_cloud_loops terminates, by returning or by raising (a cloud
\* without sketch curves, a curve CurveLoop.Append rejects); when it returns,
\* every sketch curve is in exactly one rebuilt loop and inside a loop each
\* curve (reversed when matched by its end point) starts at the rounded end
\* point of the curve before it; a loop is extended only at its tail.
C30_PartitionsOnReturn ==
    /\ <>(pc \in {"gcl_done", "gcl_raised"})
    /\ [](pc = "gcl_done" => GclPartition /\ \A k \in 1..Len(gclLoops) : GclChained(gclLoops[k]))
    /\ [](pc \in {"gcl_made", "gcl_while"} => GclChained(gclLoop))
    /\ [](pc = "gcl_raised" => gclCurves = <<>> \/ appendChecks)
    /\ GclTailOnly
\* The function returned two loops, one of them with a reversed curve
\* whose end points match the curve before it only after rounding.
C30_Witness ==
    /\ pc = "gcl_done"
    /\ Len(gclLoops) = 2
    /\ \E k \in 1..Len(gclLoops) : \E j \in 2..Len(gclLoops[k]) :
          /\ gclLoops[k][j].rev
          /\ gclLoops[k][j].c.s # gclLoops[k][j - 1].c.e

\* CurveLoop.Append rejected a curve that get_cloud_loops had matched.
C30_WitnessRaised == pc = "gcl_raised" /\ gclCurves # <<>>

=============================================================================
